---- MODULE Spec2Model ----
(***************************************************************************)
(* AuditLoggingService (src/src/services/audit-logging.service.ts) over    *)
(* the auditLog table it reaches through prisma.                           *)
(*                                                                         *)
(* Values are JavaScript values, tagged by kind.  A string is a sequence   *)
(* of tokens: the characters the code treats specially (double quote,      *)
(* backslash, comma, line break, brackets, colon) are tokens of their own, *)
(* every other token is a run of ordinary characters.  A stored row        *)
(* carries a multiplicity n: it stands for n rows of the table that agree  *)
(* in every column but the primary key.  The clock counts calendar days.   *)
(***************************************************************************)
EXTENDS Integers, Sequences, FiniteSets, TLC

VARIABLES store, now, last, calls, paymentMethods, requests

vars == <<store, now, last, calls, paymentMethods, requests>>

(***************************************************************************)
(* JavaScript values                                                       *)
(***************************************************************************)
Undefined == [k |-> "undefined"]
Null == [k |-> "null"]
Str(toks) == [k |-> "string", s |-> toks]
Num(i) == [k |-> "number", n |-> i]
Bool(b) == [k |-> "boolean", b |-> b]
Arr(items) == [k |-> "array", items |-> items]
Obj(kv) == [k |-> "object", kv |-> kv]
BigInt == [k |-> "bigint"]

\* a string of ordinary characters
S(chunk) == Str(<<chunk>>)

\* JavaScript truthiness, as used by `x ? a : b`, `if (x)` and `x || y`
Truthy(v) ==
  CASE v.k = "undefined" -> FALSE
    [] v.k = "null" -> FALSE
    [] v.k = "string" -> v.s # <<>>
    [] v.k = "number" -> v.n # 0
    [] v.k = "boolean" -> v.b
    [] OTHER -> TRUE

\* x || y
OrElse(x, y) == IF Truthy(x) THEN x ELSE y

QUOTE == "\""
BACKSLASH == "\\"
NEWLINE == "\n"
COMMA == ","

Digits == <<"0", "1", "2", "3", "4", "5", "6", "7", "8", "9">>

RECURSIVE NatToString(_)
\* String(n) of a natural number: its decimal digits
NatToString(i) ==
  IF i < 10 THEN <<Digits[i + 1]>>
  ELSE NatToString(i \div 10) \o <<Digits[(i % 10) + 1]>>

RECURSIVE Concat(_)
\* the concatenation of a sequence of token sequences
Concat(seqs) == IF seqs = <<>> THEN <<>> ELSE Head(seqs) \o Concat(Tail(seqs))

RECURSIVE Join(_, _)
\* Array.prototype.join on token sequences
Join(seqs, sep) ==
  IF seqs = <<>> THEN <<>>
  ELSE IF Len(seqs) = 1 THEN seqs[1]
  ELSE seqs[1] \o sep \o Join(Tail(seqs), sep)

(***************************************************************************)
(* JSON.stringify and JSON.parse                                           *)
(***************************************************************************)
\* an escape that leaves every character as it is
JsonEscapeNothing(toks) == toks

RECURSIVE JsonEscape(_)
\* the body of a JSON string literal: quote, backslash and line break escaped
JsonEscape(toks) ==
  IF toks = <<>> THEN <<>>
  ELSE LET c == Head(toks)
           e == IF c = QUOTE THEN <<BACKSLASH, QUOTE>>
                ELSE IF c = BACKSLASH THEN <<BACKSLASH, BACKSLASH>>
                ELSE IF c = NEWLINE THEN <<BACKSLASH, "n">>
                ELSE <<c>>
       IN e \o JsonEscape(Tail(toks))

JsonQuote(toks) == <<QUOTE>> \o JsonEscape(toks) \o <<QUOTE>>

RECURSIVE Serializable(_)
\* JSON.stringify throws a TypeError on a BigInt anywhere in the value
Serializable(v) ==
  CASE v.k = "bigint" -> FALSE
    [] v.k = "array" -> \A i \in 1..Len(v.items) : Serializable(v.items[i])
    [] v.k = "object" -> \A i \in 1..Len(v.kv) : Serializable(v.kv[i][2])
    [] OTHER -> TRUE

RECURSIVE JsonText(_)
\* the text JSON.stringify gives for a serializable value
JsonText(v) ==
  CASE v.k = "null" -> <<"null">>
    [] v.k = "undefined" -> <<"null">>
    [] v.k = "boolean" -> IF v.b THEN <<"true">> ELSE <<"false">>
    [] v.k = "number" -> NatToString(v.n)
    [] v.k = "string" -> JsonQuote(v.s)
    [] v.k = "array" ->
         <<"[">> \o Join([i \in 1..Len(v.items) |-> JsonText(v.items[i])], <<COMMA>>)
                 \o <<"]">>
    [] v.k = "object" ->
         LET kept == SelectSeq(v.kv, LAMBDA p : p[2].k # "undefined")
         IN <<"{">> \o Join([i \in 1..Len(kept) |->
                               JsonQuote(kept[i][1]) \o <<":">> \o JsonText(kept[i][2])],
                            <<COMMA>>)
                    \o <<"}">>

\* JSON.stringify(v): the text, or a throw
JSONstringify(v) ==
  IF Serializable(v) THEN [ok |-> TRUE, text |-> JsonText(v)]
  ELSE [ok |-> FALSE]

ParseFail == [ok |-> FALSE]

DigitValue(c) == (CHOOSE i \in 1..10 : Digits[i] = c) - 1
IsDigit(c) == \E i \in 1..10 : Digits[i] = c

RECURSIVE ParseString(_, _, _)
\* after the opening quote: the string up to the closing quote at or after i
ParseString(t, i, acc) ==
  IF i > Len(t) THEN ParseFail
  ELSE IF t[i] = QUOTE THEN [ok |-> TRUE, v |-> acc, i |-> i + 1]
  ELSE IF t[i] = NEWLINE THEN ParseFail
  ELSE IF t[i] = BACKSLASH THEN
    IF i + 1 > Len(t) THEN ParseFail
    ELSE IF t[i + 1] = QUOTE THEN ParseString(t, i + 2, Append(acc, QUOTE))
    ELSE IF t[i + 1] = BACKSLASH THEN ParseString(t, i + 2, Append(acc, BACKSLASH))
    ELSE IF t[i + 1] = "n" THEN ParseString(t, i + 2, Append(acc, NEWLINE))
    ELSE ParseFail
  ELSE ParseString(t, i + 1, Append(acc, t[i]))

RECURSIVE ParseDigits(_, _, _)
ParseDigits(t, i, acc) ==
  IF i <= Len(t) /\ IsDigit(t[i]) THEN ParseDigits(t, i + 1, 10 * acc + DigitValue(t[i]))
  ELSE [ok |-> TRUE, v |-> Num(acc), i |-> i]

\* a number literal at position i: no digit may follow a leading zero
ParseNumber(t, i) ==
  IF t[i] = "0" /\ i + 1 <= Len(t) /\ IsDigit(t[i + 1]) THEN ParseFail
  ELSE ParseDigits(t, i, 0)

RECURSIVE ParseValue(_, _), ParseItems(_, _, _), ParseMembers(_, _, _)
\* the JSON value that starts at position i of t
ParseValue(t, i) ==
  IF i > Len(t) THEN ParseFail
  ELSE CASE t[i] = "null" -> [ok |-> TRUE, v |-> Null, i |-> i + 1]
         [] t[i] = "true" -> [ok |-> TRUE, v |-> Bool(TRUE), i |-> i + 1]
         [] t[i] = "false" -> [ok |-> TRUE, v |-> Bool(FALSE), i |-> i + 1]
         [] IsDigit(t[i]) -> ParseNumber(t, i)
         [] t[i] = QUOTE ->
              LET r == ParseString(t, i + 1, <<>>)
              IN IF r.ok THEN [ok |-> TRUE, v |-> Str(r.v), i |-> r.i] ELSE ParseFail
         [] t[i] = "[" ->
              IF i + 1 <= Len(t) /\ t[i + 1] = "]"
              THEN [ok |-> TRUE, v |-> Arr(<<>>), i |-> i + 2]
              ELSE ParseItems(t, i + 1, <<>>)
         [] t[i] = "{" ->
              IF i + 1 <= Len(t) /\ t[i + 1] = "}"
              THEN [ok |-> TRUE, v |-> Obj(<<>>), i |-> i + 2]
              ELSE ParseMembers(t, i + 1, <<>>)
         [] OTHER -> ParseFail

\* array items from position i, acc the items before
ParseItems(t, i, acc) ==
  LET r == ParseValue(t, i)
  IN IF ~r.ok \/ r.i > Len(t) THEN ParseFail
     ELSE IF t[r.i] = "]" THEN [ok |-> TRUE, v |-> Arr(Append(acc, r.v)), i |-> r.i + 1]
     ELSE IF t[r.i] = COMMA THEN ParseItems(t, r.i + 1, Append(acc, r.v))
     ELSE ParseFail

\* object members from position i, acc the members before
ParseMembers(t, i, acc) ==
  IF i > Len(t) \/ t[i] # QUOTE THEN ParseFail
  ELSE LET key == ParseString(t, i + 1, <<>>)
       IN IF ~key.ok \/ key.i > Len(t) \/ t[key.i] # ":" THEN ParseFail
          ELSE LET r == ParseValue(t, key.i + 1)
                   kv == Append(acc, <<key.v, r.v>>)
               IN IF ~r.ok \/ r.i > Len(t) THEN ParseFail
                  ELSE IF t[r.i] = "}" THEN [ok |-> TRUE, v |-> Obj(kv), i |-> r.i + 1]
                  ELSE IF t[r.i] = COMMA THEN ParseMembers(t, r.i + 1, kv)
                  ELSE ParseFail

\* JSON.parse(text): the value, or a SyntaxError
JSONparse(t) ==
  LET r == ParseValue(t, 1)
  IN IF r.ok /\ r.i = Len(t) + 1 THEN [ok |-> TRUE, v |-> r.v] ELSE ParseFail

(***************************************************************************)
(* Enumerations and inputs                                                 *)
(***************************************************************************)
AuditActionType ==
  {"USER_CREATED", "USER_UPDATED", "USER_DELETED", "USER_ACTIVATED", "USER_DEACTIVATED",
   "PERMISSION_GRANTED", "PERMISSION_REVOKED", "ROLE_CHANGED", "ROLE_CREATED",
   "ROLE_UPDATED", "ROLE_DELETED", "BULK_OPERATION_STARTED", "BULK_OPERATION_COMPLETED",
   "BULK_OPERATION_FAILED", "SETTING_CHANGED", "SETTINGS_EXPORTED", "SETTINGS_IMPORTED",
   "LOGIN", "LOGOUT", "FAILED_LOGIN", "PASSWORD_CHANGED", "MFA_ENABLED", "MFA_DISABLED"}

AuditSeverity == {"INFO", "WARNING", "CRITICAL"}

\* the days the clock runs through
MaxTime == 2
\* the rows the recorders add to the table at most
MaxRows == 2

\* the calls of logAuditEvent that can be in flight at the same time
MaxCalls == 2

Tenants == {S("t1"), S("t2")}

\* payloads for changes and metadata
PayloadFlat == Obj(<< <<<<"a">>, S("x")>> >>)
PayloadNested ==
  Obj(<< <<<<"q", QUOTE>>,
           Arr(<<Str(<<"say ", QUOTE, "hi", QUOTE, BACKSLASH, NEWLINE, COMMA>>),
                 Num(120), Null, Bool(TRUE), Obj(<<>>), Arr(<<>>)>>)>>,
         <<<<"z">>, Num(0)>> >>)
PayloadEmpty == Obj(<<>>)
PayloadBigInt == Obj(<< <<<<"big">>, BigInt>> >>)

\* an AuditLogEntry as a caller passes it; an omitted optional field is undefined
Entry(actionType, severity, userId, tenantId, description) ==
  [actionType |-> S(actionType), severity |-> S(severity), userId |-> userId,
   tenantId |-> tenantId, targetUserId |-> Undefined, targetResourceId |-> Undefined,
   targetResourceType |-> Undefined, description |-> description,
   changes |-> Undefined, metadata |-> Undefined, ipAddress |-> Undefined,
   userAgent |-> Undefined]

EntryLogin == Entry("LOGIN", "INFO", S("u1"), S("t1"), S("login"))
\* a day beyond every day the clock of the model reaches
CallerDay == 99

\* an entry with every field set, and with a timestamp property of its own,
\* which AuditLogEntry does not have
EntryDelete ==
  [timestamp |-> CallerDay] @@
  [Entry("USER_DELETED", "CRITICAL", S("u2"), S("t2"),
         Str(<<"Say ", QUOTE, "hi", QUOTE>>))
   EXCEPT !.targetUserId = S("u1"), !.targetResourceId = S("r1"),
          !.targetResourceType = S("USER"), !.changes = PayloadNested,
          !.metadata = PayloadFlat, !.ipAddress = S("10.0.0.1"),
          !.userAgent = S("curl")]
EntryFailed ==
  [Entry("FAILED_LOGIN", "WARNING", Str(<<"u", COMMA, QUOTE>>), S("t1"),
         Str(<<"a", COMMA, "b", NEWLINE, "c">>))
   EXCEPT !.changes = PayloadEmpty, !.targetUserId = S("u1")]
EntryBigInt == [EntryLogin EXCEPT !.metadata = PayloadBigInt]

Entries == {EntryLogin, EntryDelete, EntryFailed, EntryBigInt}

\* entries of one tenant with different fields
PagedEntries == {EntryLogin, EntryFailed}

(***************************************************************************)
(* The auditLog table: a bag of rows.  A row also remembers the entry it   *)
(* was created from (passed), which no operation reads.                    *)
(***************************************************************************)
Rows(t) == DOMAIN t
Copies(t, r) == IF r \in DOMAIN t THEN t[r] ELSE 0

RECURSIVE SumOver(_, _)
SumOver(t, rs) ==
  IF rs = {} THEN 0
  ELSE LET r == CHOOSE x \in rs : TRUE IN t[r] + SumOver(t, rs \ {r})

\* the number of rows of the table
Count(t) == SumOver(t, DOMAIN t)

\* an undefined field of create's data is stored as NULL
Column(v) == IF v.k = "undefined" THEN Null ELSE v

\* the data object logAuditEvent builds for create
CreateData(entry, timestamp) ==
  LET changes == IF Truthy(entry.changes) THEN JSONstringify(entry.changes)
                 ELSE [ok |-> TRUE, null |-> TRUE]
      metadata == IF Truthy(entry.metadata) THEN JSONstringify(entry.metadata)
                  ELSE [ok |-> TRUE, null |-> TRUE]
  IN IF ~changes.ok \/ ~metadata.ok THEN [ok |-> FALSE]
     ELSE [ok |-> TRUE,
           data |->
             [actionType |-> entry.actionType,
              severity |-> entry.severity,
              userId |-> entry.userId,
              tenantId |-> entry.tenantId,
              targetUserId |-> entry.targetUserId,
              targetResourceId |-> entry.targetResourceId,
              targetResourceType |-> entry.targetResourceType,
              description |-> entry.description,
              changes |-> IF Truthy(entry.changes) THEN Str(changes.text) ELSE Null,
              metadata |-> IF Truthy(entry.metadata) THEN Str(metadata.text) ELSE Null,
              ipAddress |-> entry.ipAddress,
              userAgent |-> entry.userAgent,
              timestamp |-> timestamp]]

\* the row prisma.auditLog.create stores for data
StoredRow(data, entry) ==
  [actionType |-> data.actionType, severity |-> data.severity, userId |-> data.userId,
   tenantId |-> data.tenantId, targetUserId |-> Column(data.targetUserId),
   targetResourceId |-> Column(data.targetResourceId),
   targetResourceType |-> Column(data.targetResourceType),
   description |-> data.description, changes |-> data.changes,
   metadata |-> data.metadata, ipAddress |-> Column(data.ipAddress),
   userAgent |-> Column(data.userAgent), timestamp |-> data.timestamp,
   passed |-> entry]

\* a create that leaves the new row alone in the table
PrismaCreateOverwrite(t, row) == [r \in {row} |-> 1]

\* prisma.auditLog.create
PrismaCreate(t, row) ==
  [r \in DOMAIN t \cup {row} |-> Copies(t, r) + (IF r = row THEN 1 ELSE 0)]

\* logAuditEvent without its catch block
LogAuditEventNoCatch(t, clock, entry, dbOk) ==
  LET built == CreateData(entry, clock)
  IN IF ~built.ok
     THEN [store |-> t, outcome |-> "threw", error |-> "stringify", created |-> <<>>]
     ELSE IF ~dbOk
     THEN [store |-> t, outcome |-> "threw", error |-> "create", created |-> <<>>]
     ELSE [store |-> PrismaCreate(t, StoredRow(built.data, entry)),
           outcome |-> "returned", error |-> "none",
           created |-> <<StoredRow(built.data, entry)>>]

\* a logAuditEvent that takes the timestamp of the entry when it has one
LogAuditEventCallerTime(t, clock, entry, dbOk) ==
  LET built == CreateData(entry, IF "timestamp" \in DOMAIN entry THEN entry.timestamp
                                 ELSE clock)
  IN IF ~built.ok
     THEN [store |-> t, outcome |-> "returned", error |-> "stringify", created |-> <<>>]
     ELSE IF ~dbOk
     THEN [store |-> t, outcome |-> "returned", error |-> "create", created |-> <<>>]
     ELSE [store |-> PrismaCreate(t, StoredRow(built.data, entry)),
           outcome |-> "returned", error |-> "none",
           created |-> <<StoredRow(built.data, entry)>>]

\* one call of logAuditEvent(entry) on table t at time clock; dbOk: create succeeds
LogAuditEvent(t, clock, entry, dbOk) ==
  LET built == CreateData(entry, clock)
  IN IF ~built.ok
     THEN [store |-> t, outcome |-> "returned", error |-> "stringify", created |-> <<>>]
     ELSE IF ~dbOk
     THEN [store |-> t, outcome |-> "returned", error |-> "create", created |-> <<>>]
     ELSE [store |-> PrismaCreate(t, StoredRow(built.data, entry)),
           outcome |-> "returned", error |-> "none",
           created |-> <<StoredRow(built.data, entry)>>]

(***************************************************************************)
(* prisma.auditLog.findMany, groupBy and deleteMany                        *)
(***************************************************************************)
NoCondition == [c |-> "any"]
Equals(v) == IF v.k = "undefined" THEN NoCondition ELSE [c |-> "equals", v |-> v]
In(vs) == [c |-> "in", vs |-> vs]
\* a range without its two bounds
BetweenExclusive(gte, lte) == [c |-> "between", gte |-> gte + 1, lte |-> lte - 1]

Between(gte, lte) == [c |-> "between", gte |-> gte, lte |-> lte]
\* a condition that lets the bound itself through
LtOrEqual(x) == [c |-> "between", gte |-> 0 - 1, lte |-> x]

\* a condition that stops a day short of the bound
LtDayBefore(x) == [c |-> "lt", lt |-> x - 1]

Lt(x) == [c |-> "lt", lt |-> x]

\* a condition of a where clause on the value x of a column
Holds(cond, x) ==
  CASE cond.c = "any" -> TRUE
    [] cond.c = "equals" -> x = cond.v
    [] cond.c = "in" -> \E i \in 1..Len(cond.vs) : cond.vs[i] = x
    [] cond.c = "between" -> cond.gte <= x /\ x <= cond.lte
    [] cond.c = "lt" -> x < cond.lt

NoWhere ==
  [tenantId |-> NoCondition, userId |-> NoCondition, actionType |-> NoCondition, targetUserId |-> NoCondition,
   severity |-> NoCondition, timestamp |-> NoCondition]

Matches(row, where) ==
  /\ Holds(where.tenantId, row.tenantId)
  /\ Holds(where.userId, row.userId)
  /\ Holds(where.actionType, row.actionType)
  /\ Holds(where.targetUserId, row.targetUserId)
  /\ Holds(where.severity, row.severity)
  /\ Holds(where.timestamp, row.timestamp)

Matching(t, where) == {r \in DOMAIN t : Matches(r, where)}

\* the orders with the oldest rows first
AscOrders(rs) ==
  {o \in [1..Cardinality(rs) -> rs] :
     /\ \A i, j \in 1..Cardinality(rs) : i # j => o[i] # o[j]
     /\ \A i, j \in 1..Cardinality(rs) : i < j => o[i].timestamp <= o[j].timestamp}

\* the orders `orderBy: { timestamp: 'desc' }` allows for the rows rs; rows
\* with equal timestamps come in any order
DescOrders(rs) ==
  {o \in [1..Cardinality(rs) -> rs] :
     /\ \A i, j \in 1..Cardinality(rs) : i # j => o[i] # o[j]
     /\ \A i, j \in 1..Cardinality(rs) : i < j => o[i].timestamp >= o[j].timestamp}

RECURSIVE Skip(_, _)
\* blocks (a row and its number of copies each) without their first k rows
Skip(blocks, k) ==
  IF blocks = <<>> \/ k = 0 THEN blocks
  ELSE IF Head(blocks).n <= k THEN Skip(Tail(blocks), k - Head(blocks).n)
  ELSE <<[Head(blocks) EXCEPT !.n = @ - k]>> \o Tail(blocks)

RECURSIVE Take(_, _)
\* the first k rows of blocks
Take(blocks, k) ==
  IF blocks = <<>> \/ k = 0 THEN <<>>
  ELSE IF Head(blocks).n <= k THEN <<Head(blocks)>> \o Take(Tail(blocks), k - Head(blocks).n)
  ELSE <<[Head(blocks) EXCEPT !.n = k]>>

RECURSIVE Total(_)
\* the number of rows of blocks
Total(blocks) == IF blocks = <<>> THEN 0 ELSE Head(blocks).n + Total(Tail(blocks))

\* findMany({ where, orderBy: { timestamp: 'desc' }, take, skip }), the rows in order o
FindMany(t, where, o, take, skip) ==
  Take(Skip([i \in DOMAIN o |-> [row |-> o[i], n |-> t[o[i]]]], skip), take)

\* groupBy({ by: ['actionType'], where, _count: true })
GroupBy(t, where) ==
  LET rs == Matching(t, where)
  IN {[actionType |-> a, _count |-> SumOver(t, {r \in rs : r.actionType = a})] :
        a \in {r.actionType : r \in rs}}

\* an update in place of a delete: the matching rows stay, without description
DeleteManyMark(t, where) ==
  LET gone == Matching(t, where)
      kept == DOMAIN t \ gone
      Mark(r) == [r EXCEPT !.description = Null]
  IN [store |-> [x \in kept \cup {Mark(r) : r \in gone} |->
                   IF x \in kept THEN t[x]
                   ELSE SumOver(t, {r \in gone : Mark(r) = x})],
      count |-> SumOver(t, gone)]

\* a delete that removes one matching row only
DeleteFirst(t, where) ==
  IF Matching(t, where) = {} THEN [store |-> t, count |-> 0]
  ELSE LET r == CHOOSE x \in Matching(t, where) : TRUE
       IN [store |-> [x \in (IF t[r] = 1 THEN DOMAIN t \ {r} ELSE DOMAIN t) |->
                        IF x = r THEN t[x] - 1 ELSE t[x]],
           count |-> 1]

\* deleteMany({ where })
DeleteMany(t, where) ==
  [store |-> [r \in DOMAIN t \ Matching(t, where) |-> t[r]],
   count |-> SumOver(t, Matching(t, where))]

(***************************************************************************)
(* queryAuditLogs                                                          *)
(***************************************************************************)
DefaultLimit == 100

DateRange(startDate, endDate) ==
  [k |-> "object", startDate |-> startDate, endDate |-> endDate]

\* a where clause that leaves the tenant out
QueryWhereNoTenant(filter) ==
  [tenantId |-> NoCondition,
   userId |-> IF Truthy(filter.userId) THEN Equals(filter.userId) ELSE NoCondition,
   actionType |->
     IF Truthy(filter.actionType)
     THEN IF filter.actionType.k = "array" THEN In(filter.actionType.items)
          ELSE Equals(filter.actionType)
     ELSE NoCondition,
   targetUserId |->
     IF Truthy(filter.targetUserId) THEN Equals(filter.targetUserId) ELSE NoCondition,
   severity |->
     IF Truthy(filter.severity)
     THEN IF filter.severity.k = "array" THEN In(filter.severity.items)
          ELSE Equals(filter.severity)
     ELSE NoCondition,
   timestamp |->
     IF Truthy(filter.dateRange)
     THEN Between(filter.dateRange.startDate, filter.dateRange.endDate)
     ELSE NoCondition]

\* the where clause queryAuditLogs builds from a filter
QueryWhere(filter) ==
  [tenantId |-> Equals(filter.tenantId),
   userId |-> IF Truthy(filter.userId) THEN Equals(filter.userId) ELSE NoCondition,
   actionType |->
     IF Truthy(filter.actionType)
     THEN IF filter.actionType.k = "array" THEN In(filter.actionType.items)
          ELSE Equals(filter.actionType)
     ELSE NoCondition,
   targetUserId |-> IF Truthy(filter.targetUserId) THEN Equals(filter.targetUserId) ELSE NoCondition,
   severity |->
     IF Truthy(filter.severity)
     THEN IF filter.severity.k = "array" THEN In(filter.severity.items)
          ELSE Equals(filter.severity)
     ELSE NoCondition,
   timestamp |->
     IF Truthy(filter.dateRange)
     THEN Between(filter.dateRange.startDate, filter.dateRange.endDate)
     ELSE NoCondition]

QueryTake(filter) == OrElse(filter.limit, Num(DefaultLimit)).n
QuerySkip(filter) == OrElse(filter.offset, Num(0)).n

\* a column that holds JSON text or NULL, parsed
ParsedColumn(v) ==
  IF Truthy(v)
  THEN LET r == JSONparse(v.s) IN IF r.ok THEN [ok |-> TRUE, v |-> r.v] ELSE ParseFail
  ELSE [ok |-> TRUE, v |-> Null]

\* logs.map(...): each row with changes and metadata parsed
ParsedLogs(blocks) ==
  [i \in DOMAIN blocks |->
     [row |-> [blocks[i].row EXCEPT !.changes = ParsedColumn(@).v,
                                    !.metadata = ParsedColumn(@).v],
      n |-> blocks[i].n]]

\* one call of queryAuditLogs(filter) on table t, the store answering in order o
QueryAuditLogs(t, filter, o) ==
  LET logs == FindMany(t, QueryWhere(filter), o, QueryTake(filter), QuerySkip(filter))
  IN IF \A i \in DOMAIN logs :
          ParsedColumn(logs[i].row.changes).ok /\ ParsedColumn(logs[i].row.metadata).ok
     THEN [outcome |-> "returned", logs |-> ParsedLogs(logs)]
     ELSE [outcome |-> "threw"]

(***************************************************************************)
(* getAuditStats, deleteOldLogs                                            *)
(***************************************************************************)
\* statistics that ignore the date range
GetAuditStatsAllTime(t, tenantId, dateRange) ==
  LET actionTypeCounts == GroupBy(t, [NoWhere EXCEPT !.tenantId = Equals(tenantId)])
  IN [a \in {g.actionType : g \in actionTypeCounts} |->
        (CHOOSE g \in actionTypeCounts : g.actionType = a)._count]

\* one call of getAuditStats(tenantId, dateRange) on table t
GetAuditStats(t, tenantId, dateRange) ==
  LET where == [NoWhere EXCEPT
                  !.tenantId = Equals(tenantId),
                  !.timestamp = IF Truthy(dateRange)
                                THEN Between(dateRange.startDate, dateRange.endDate)
                                ELSE NoCondition]
      actionTypeCounts == GroupBy(t, where)
  IN [a \in {g.actionType : g \in actionTypeCounts} |->
        (CHOOSE g \in actionTypeCounts : g.actionType = a)._count]

DefaultRetentionDays == 90

\* a sweep over the rows of every tenant
DeleteOldLogsAllTenants(t, clock, tenantId, retentionDays) ==
  LET days == IF retentionDays.k = "undefined" THEN DefaultRetentionDays
              ELSE retentionDays.n
      cutoffDate == clock - days
      result == DeleteMany(t, [NoWhere EXCEPT !.timestamp = Lt(cutoffDate)])
  IN [store |-> result.store, count |-> result.count, cutoffDate |-> cutoffDate]

\* one call of deleteOldLogs(tenantId, retentionDays) on table t at time clock
DeleteOldLogs(t, clock, tenantId, retentionDays) ==
  LET days == IF retentionDays.k = "undefined" THEN DefaultRetentionDays
              ELSE retentionDays.n
      cutoffDate == clock - days
      result == DeleteMany(t, [NoWhere EXCEPT !.tenantId = Equals(tenantId),
                                               !.timestamp = Lt(cutoffDate)])
  IN [store |-> result.store, count |-> result.count, cutoffDate |-> cutoffDate]

(***************************************************************************)
(* exportAuditLogs                                                         *)
(***************************************************************************)
ExportLimit == 10000

\* the rows of a table that is large from the start: more than one export holds
BulkRows == ExportLimit + 1

NoFilter ==
  [k |-> "object", userId |-> Undefined, tenantId |-> Undefined, actionType |-> Undefined,
   targetUserId |-> Undefined, severity |-> Undefined, dateRange |-> Undefined,
   limit |-> Undefined, offset |-> Undefined]

\* { tenantId, limit: 10000, ...filter }: the limit of the caller wins
ExportFilterCallerLimit(tenantId, filter) ==
  IF filter.k = "undefined" \/ filter.limit.k = "undefined"
  THEN [(IF filter.k = "undefined" THEN NoFilter ELSE filter)
          EXCEPT !.tenantId = tenantId, !.limit = Num(ExportLimit)]
  ELSE [filter EXCEPT !.tenantId = tenantId]

\* { tenantId, ...filter, limit: 10000 }: the tenant of the caller's filter wins
ExportFilterCallerTenant(tenantId, filter) ==
  IF filter.k = "undefined" \/ filter.tenantId.k = "undefined"
  THEN [(IF filter.k = "undefined" THEN NoFilter ELSE filter)
          EXCEPT !.tenantId = tenantId, !.limit = Num(ExportLimit)]
  ELSE [filter EXCEPT !.limit = Num(ExportLimit)]

\* { ...filter, tenantId, limit: 10000, offset: undefined }
ExportFilterNoOffset(tenantId, filter) ==
  [(IF filter.k = "undefined" THEN NoFilter ELSE filter)
     EXCEPT !.tenantId = tenantId, !.limit = Num(ExportLimit), !.offset = Undefined]

\* { ...filter, tenantId, limit: 10000 }
ExportFilter(tenantId, filter) ==
  [(IF filter.k = "undefined" THEN NoFilter ELSE filter)
     EXCEPT !.tenantId = tenantId, !.limit = Num(ExportLimit)]

\* Date.prototype.toISOString of the day d of January 1970
ToISOString(d) ==
  <<"1970-01-">> \o (IF d + 1 < 10 THEN <<"0">> ELSE <<>>) \o NatToString(d + 1)
                 \o <<"T00", ":", "00", ":", "00.000Z">>

CsvHeaders ==
  <<<<"Timestamp">>, <<"Action Type">>, <<"Severity">>, <<"User ID">>,
    <<"Target User ID">>, <<"Resource Type">>, <<"Description">>, <<"IP Address">>>>

\* cells in which a missing field reads null
CsvCellsNullText(log) ==
  <<ToISOString(log.timestamp),
    log.actionType.s,
    log.severity.s,
    log.userId.s,
    IF Truthy(log.targetUserId) THEN log.targetUserId.s ELSE <<"null">>,
    IF Truthy(log.targetResourceType) THEN log.targetResourceType.s ELSE <<"null">>,
    log.description.s,
    IF Truthy(log.ipAddress) THEN log.ipAddress.s ELSE <<"null">>>>

\* the cells of the row of a log
CsvCells(log) ==
  <<ToISOString(log.timestamp),
    log.actionType.s,
    log.severity.s,
    log.userId.s,
    OrElse(log.targetUserId, Str(<<>>)).s,
    OrElse(log.targetResourceType, Str(<<>>)).s,
    log.description.s,
    OrElse(log.ipAddress, Str(<<>>)).s>>

\* a replace that leaves the quotes single
SingleQuotes(cell) == cell

RECURSIVE DoubleQuotes(_)
\* String(cell).replace(/"/g, '""')
DoubleQuotes(cell) ==
  IF cell = <<>> THEN <<>>
  ELSE (IF Head(cell) = QUOTE THEN <<QUOTE, QUOTE>> ELSE <<Head(cell)>>)
       \o DoubleQuotes(Tail(cell))

\* `"${String(cell).replace(/"/g, '""')}"`
CsvField(cell) == <<QUOTE>> \o DoubleQuotes(cell) \o <<QUOTE>>

CsvLine(cells) == Join([i \in DOMAIN cells |-> CsvField(cells[i])], <<COMMA>>)

\* one call of exportAuditLogs(tenantId, filter) on table t, the store answering
\* in order o.  The text is the header line and then, for each returned block,
\* n copies of its line, all joined by line breaks.
\* the text of the logs that the query q returned
ExportOf(q) ==
  IF q.outcome = "threw" THEN [outcome |-> "threw"]
  ELSE [outcome |-> "returned",
        logs |-> q.logs,
        header |-> Join(CsvHeaders, <<COMMA>>),
        lines |-> [i \in DOMAIN q.logs |->
                     [line |-> CsvLine(CsvCells(q.logs[i].row)), n |-> q.logs[i].n]]]

ExportAuditLogs(t, tenantId, filter, o) ==
  ExportOf(QueryAuditLogs(t, ExportFilter(tenantId, filter), o))

(***************************************************************************)
(* The convenience recorders                                               *)
(***************************************************************************)
\* an entry classified by the removed list first
PermissionChangeEntryRemovedFirst(userId, tenantId, targetUserId, permissionsAdded, permissionsRemoved, metadata) ==
  [actionType |-> IF Len(permissionsRemoved) > 0 THEN S("PERMISSION_REVOKED")
                  ELSE S("PERMISSION_GRANTED"),
   severity |-> S("INFO"),
   userId |-> userId,
   tenantId |-> tenantId,
   targetUserId |-> targetUserId,
   targetResourceId |-> Undefined,
   targetResourceType |-> S("USER_PERMISSIONS"),
   description |->
     Str((IF Len(permissionsRemoved) > 0 THEN <<"Revoked">> ELSE <<"Granted">>)
         \o <<" ">> \o NatToString(Len(permissionsAdded) + Len(permissionsRemoved))
         \o <<" permission(s) for ">> \o targetUserId.s),
   changes |-> Obj(<< <<<<"added">>, Arr(permissionsAdded)>>,
                      <<<<"removed">>, Arr(permissionsRemoved)>> >>),
   metadata |-> metadata,
   ipAddress |-> Undefined,
   userAgent |-> Undefined]

\* an entry that records only the direction it is classified by
PermissionChangeEntryOneDirection(userId, tenantId, targetUserId, permissionsAdded, permissionsRemoved, metadata) ==
  [actionType |-> IF Len(permissionsAdded) > 0 THEN S("PERMISSION_GRANTED")
                  ELSE S("PERMISSION_REVOKED"),
   severity |-> S("INFO"),
   userId |-> userId,
   tenantId |-> tenantId,
   targetUserId |-> targetUserId,
   targetResourceId |-> Undefined,
   targetResourceType |-> S("USER_PERMISSIONS"),
   description |->
     Str((IF Len(permissionsAdded) > 0 THEN <<"Granted">> ELSE <<"Revoked">>)
         \o <<" ">>
         \o NatToString(IF Len(permissionsAdded) > 0 THEN Len(permissionsAdded)
                        ELSE Len(permissionsRemoved))
         \o <<" permission(s) for ">> \o targetUserId.s),
   changes |-> Obj(<< <<<<"added">>, Arr(permissionsAdded)>>,
                      <<<<"removed">>,
                        Arr(IF Len(permissionsAdded) > 0 THEN <<>>
                            ELSE permissionsRemoved)>> >>),
   metadata |-> metadata,
   ipAddress |-> Undefined,
   userAgent |-> Undefined]

\* the entry logPermissionChange passes to logAuditEvent
PermissionChangeEntry(userId, tenantId, targetUserId, permissionsAdded, permissionsRemoved, metadata) ==
  [actionType |-> IF Len(permissionsAdded) > 0 THEN S("PERMISSION_GRANTED")
                  ELSE S("PERMISSION_REVOKED"),
   severity |-> S("INFO"),
   userId |-> userId,
   tenantId |-> tenantId,
   targetUserId |-> targetUserId,
   targetResourceId |-> Undefined,
   targetResourceType |-> S("USER_PERMISSIONS"),
   description |->
     Str((IF Len(permissionsAdded) > 0 THEN <<"Granted">> ELSE <<"Revoked">>)
         \o <<" ">> \o NatToString(Len(permissionsAdded) + Len(permissionsRemoved))
         \o <<" permission(s) for ">> \o targetUserId.s),
   changes |-> Obj(<< <<<<"added">>, Arr(permissionsAdded)>>,
                      <<<<"removed">>, Arr(permissionsRemoved)>> >>),
   metadata |-> metadata,
   ipAddress |-> Undefined,
   userAgent |-> Undefined]

\* a check that lets every call through
HasChangesAlways(permissionsAdded, permissionsRemoved) == TRUE

\* whether logPermissionChange goes on to record
HasChanges(permissionsAdded, permissionsRemoved) ==
  Len(permissionsAdded) > 0 \/ Len(permissionsRemoved) > 0

\* an entry whose severity follows the role the user had
RoleChangeEntryByFromRole(userId, tenantId, targetUserId, fromRole, toRole, reason) ==
  [actionType |-> S("ROLE_CHANGED"),
   severity |-> IF fromRole \in {S("SUPER_ADMIN"), S("ADMIN")} THEN S("CRITICAL")
                ELSE S("INFO"),
   userId |-> userId,
   tenantId |-> tenantId,
   targetUserId |-> targetUserId,
   targetResourceId |-> Undefined,
   targetResourceType |-> S("USER_ROLE"),
   description |->
     Str(<<"Changed role for ">> \o targetUserId.s \o <<" from ">> \o fromRole.s
         \o <<" to ">> \o toRole.s
         \o (IF Truthy(reason) THEN <<" (">> \o reason.s \o <<")">> ELSE <<>>)),
   changes |-> Obj(<< <<<<"fromRole">>, fromRole>>, <<<<"toRole">>, toRole>> >>),
   metadata |-> IF Truthy(reason) THEN Obj(<< <<<<"reason">>, reason>> >>) ELSE Undefined,
   ipAddress |-> Undefined,
   userAgent |-> Undefined]

\* the entry logRoleChange passes to logAuditEvent
RoleChangeEntry(userId, tenantId, targetUserId, fromRole, toRole, reason) ==
  [actionType |-> S("ROLE_CHANGED"),
   severity |-> IF toRole \in {S("SUPER_ADMIN"), S("ADMIN")} THEN S("CRITICAL")
                ELSE S("INFO"),
   userId |-> userId,
   tenantId |-> tenantId,
   targetUserId |-> targetUserId,
   targetResourceId |-> Undefined,
   targetResourceType |-> S("USER_ROLE"),
   description |->
     Str(<<"Changed role for ">> \o targetUserId.s \o <<" from ">> \o fromRole.s
         \o <<" to ">> \o toRole.s
         \o (IF Truthy(reason) THEN <<" (">> \o reason.s \o <<")">> ELSE <<>>)),
   changes |-> Obj(<< <<<<"fromRole">>, fromRole>>, <<<<"toRole">>, toRole>> >>),
   metadata |-> IF Truthy(reason) THEN Obj(<< <<<<"reason">>, reason>> >>) ELSE Undefined,
   ipAddress |-> Undefined,
   userAgent |-> Undefined]

\* an entry that names the section in its description only
SettingsChangeEntryNoSection(userId, tenantId, section, changes) ==
  [actionType |-> S("SETTING_CHANGED"),
   severity |-> S("INFO"),
   userId |-> userId,
   tenantId |-> tenantId,
   targetUserId |-> Undefined,
   targetResourceId |-> Undefined,
   targetResourceType |-> S("SETTINGS"),
   description |-> Str(<<"Updated ">> \o section.s \o <<" settings">>),
   changes |-> changes,
   metadata |-> Undefined,
   ipAddress |-> Undefined,
   userAgent |-> Undefined]

\* the entry logSettingsChange passes to logAuditEvent
SettingsChangeEntry(userId, tenantId, section, changes) ==
  [actionType |-> S("SETTING_CHANGED"),
   severity |-> S("INFO"),
   userId |-> userId,
   tenantId |-> tenantId,
   targetUserId |-> Undefined,
   targetResourceId |-> section,
   targetResourceType |-> S("SETTINGS"),
   description |-> Str(<<"Updated ">> \o section.s \o <<" settings">>),
   changes |-> changes,
   metadata |-> Undefined,
   ipAddress |-> Undefined,
   userAgent |-> Undefined]

RECURSIVE Assign(_, _)
\* the members kv with the members of extra spread over them
Assign(kv, extra) ==
  IF extra = <<>> THEN kv
  ELSE LET p == Head(extra)
           merged == IF \E i \in DOMAIN kv : kv[i][1] = p[1]
                     THEN [i \in DOMAIN kv |-> IF kv[i][1] = p[1] THEN p ELSE kv[i]]
                     ELSE Append(kv, p)
       IN Assign(merged, Tail(extra))

\* an entry with a warning for every status but COMPLETED
BulkOperationEntryWarnStarted(userId, tenantId, operationType, affectedUserCount, status, metadata) ==
  [actionType |-> IF status = S("STARTED") THEN S("BULK_OPERATION_STARTED")
                  ELSE IF status = S("COMPLETED") THEN S("BULK_OPERATION_COMPLETED")
                  ELSE S("BULK_OPERATION_FAILED"),
   severity |-> IF status = S("COMPLETED") THEN S("INFO") ELSE S("WARNING"),
   userId |-> userId,
   tenantId |-> tenantId,
   targetUserId |-> Undefined,
   targetResourceId |-> Undefined,
   targetResourceType |-> S("BULK_OPERATION"),
   description |->
     Str(status.s \o <<" bulk operation", ":", " ">> \o operationType.s
         \o <<" affecting ">> \o NatToString(affectedUserCount.n) \o <<" user(s)">>),
   changes |-> Undefined,
   metadata |->
     Obj(Assign(<< <<<<"operationType">>, operationType>>,
                   <<<<"affectedUserCount">>, affectedUserCount>> >>,
                IF metadata.k = "object" THEN metadata.kv ELSE <<>>)),
   ipAddress |-> Undefined,
   userAgent |-> Undefined]

\* the entry logBulkOperation passes to logAuditEvent
BulkOperationEntry(userId, tenantId, operationType, affectedUserCount, status, metadata) ==
  [actionType |-> IF status = S("STARTED") THEN S("BULK_OPERATION_STARTED")
                  ELSE IF status = S("COMPLETED") THEN S("BULK_OPERATION_COMPLETED")
                  ELSE S("BULK_OPERATION_FAILED"),
   severity |-> IF status = S("FAILED") THEN S("WARNING") ELSE S("INFO"),
   userId |-> userId,
   tenantId |-> tenantId,
   targetUserId |-> Undefined,
   targetResourceId |-> Undefined,
   targetResourceType |-> S("BULK_OPERATION"),
   description |->
     Str(status.s \o <<" bulk operation", ":", " ">> \o operationType.s
         \o <<" affecting ">> \o NatToString(affectedUserCount.n) \o <<" user(s)">>),
   changes |-> Undefined,
   metadata |->
     Obj(Assign(<< <<<<"operationType">>, operationType>>,
                   <<<<"affectedUserCount">>, affectedUserCount>> >>,
                IF metadata.k = "object" THEN metadata.kv ELSE <<>>)),
   ipAddress |-> Undefined,
   userAgent |-> Undefined]

(***************************************************************************)
(* Recorder calls                                                          *)
(***************************************************************************)
\* one call of logPermissionChange
LogPermissionChange(t, clock, userId, tenantId, targetUserId, permissionsAdded, permissionsRemoved, metadata, dbOk) ==
  IF ~HasChanges(permissionsAdded, permissionsRemoved)
  THEN [store |-> t, outcome |-> "returned", error |-> "none", created |-> <<>>,
        called |-> FALSE]
  ELSE LET r == LogAuditEvent(t, clock,
                              PermissionChangeEntry(userId, tenantId, targetUserId,
                                                    permissionsAdded, permissionsRemoved,
                                                    metadata),
                              dbOk)
       IN [store |-> r.store, outcome |-> r.outcome, error |-> r.error,
           created |-> r.created, called |-> TRUE]

\* a logRoleChange that returns early when the role stays the same
LogRoleChangeSkipSame(t, clock, userId, tenantId, targetUserId, fromRole, toRole, reason, dbOk) ==
  IF fromRole = toRole
  THEN [store |-> t, outcome |-> "returned", error |-> "none", created |-> <<>>]
  ELSE LogAuditEvent(t, clock,
                     RoleChangeEntry(userId, tenantId, targetUserId, fromRole, toRole,
                                     reason),
                     dbOk)

\* one call of logRoleChange
LogRoleChange(t, clock, userId, tenantId, targetUserId, fromRole, toRole, reason, dbOk) ==
  LogAuditEvent(t, clock,
                RoleChangeEntry(userId, tenantId, targetUserId, fromRole, toRole, reason),
                dbOk)

\* one call of logSettingsChange
LogSettingsChange(t, clock, userId, tenantId, section, changes, dbOk) ==
  LogAuditEvent(t, clock, SettingsChangeEntry(userId, tenantId, section, changes), dbOk)

\* one call of logBulkOperation
LogBulkOperation(t, clock, userId, tenantId, operationType, affectedUserCount, status, metadata, dbOk) ==
  LogAuditEvent(t, clock,
                BulkOperationEntry(userId, tenantId, operationType, affectedUserCount,
                                   status, metadata),
                dbOk)

(***************************************************************************)
(* Inputs of the calls                                                     *)
(***************************************************************************)
\* who calls a convenience recorder, for which tenant, about whom, and the
\* metadata of the call
Caller1 ==
  [userId |-> S("u1"), tenantId |-> S("t1"), targetUserId |-> S("u2"),
   metadata |-> Undefined]
Caller2 ==
  [userId |-> S("u2"), tenantId |-> S("t2"), targetUserId |-> Str(<<"u", QUOTE, "1">>),
   metadata |-> PayloadFlat]

PermissionLists == {<<>>, <<S("users.edit"), S("users.delete")>>}

\* lists of different lengths
MixedLists == {<<>>, <<S("users.edit"), S("users.delete")>>, <<S("billing.view")>>}

Callers == {Caller1, Caller2}
Roles == {S("USER"), S("ADMIN"), S("SUPER_ADMIN"), S("admin")}
Statuses == {S("STARTED"), S("COMPLETED"), S("FAILED")}

Filter(tenantId) == [NoFilter EXCEPT !.tenantId = tenantId]

\* filters on the columns
ColumnFilters ==
  {[Filter(t) EXCEPT !.userId = u, !.actionType = a, !.targetUserId = tu, !.severity = sv] :
     t \in Tenants,
     u \in {Undefined, S("u1")},
     a \in {Undefined, S("LOGIN"), Arr(<<S("USER_DELETED"), S("FAILED_LOGIN")>>)},
     tu \in {Undefined, S("u1")},
     sv \in {Undefined, S("WARNING"), Arr(<<S("INFO"), S("CRITICAL")>>)}}

DateRanges == {Undefined, DateRange(0, 0), DateRange(0, 1), DateRange(1, MaxTime)}

\* filters on the time and the page
PageFilters ==
  {[Filter(t) EXCEPT !.dateRange = d, !.limit = l, !.offset = o] :
     t \in Tenants,
     d \in DateRanges,
     l \in {Undefined, Num(1), Num(2 * ExportLimit)},
     o \in {Undefined, Num(1)}}

\* filters on everything at once
MixedFilters ==
  {[Filter(t) EXCEPT !.userId = S("u1"), !.actionType = Arr(<<S("LOGIN")>>),
                     !.severity = S("INFO"), !.dateRange = DateRange(0, 1),
                     !.limit = Num(1), !.offset = o] :
     t \in Tenants, o \in {Undefined, Num(1)}}

QueryFilters == ColumnFilters \cup PageFilters \cup MixedFilters

\* filters with a field that is the empty string
EmptyStringFilters ==
  {[Filter(t) EXCEPT ![f] = Str(<<>>)] :
     t \in Tenants, f \in {"userId", "actionType", "targetUserId", "severity"}}

FilterCases == QueryFilters \cup EmptyStringFilters

\* filters with a page: a limit and an offset that are absent, zero or more
PagingFilters ==
  {[Filter(t) EXCEPT !.limit = l, !.offset = o] :
     t \in Tenants,
     l \in {Undefined, Num(0), Num(1), Num(2)},
     o \in {Undefined, Num(0), Num(1)}}

ExportFilters ==
  {Undefined} \cup
  {[Filter(t) EXCEPT !.limit = l, !.offset = o] :
     t \in Tenants,
     l \in {Undefined, Num(1), Num(2 * ExportLimit)},
     o \in {Undefined, Num(2)}}

\* filters of an export with an offset that is absent, zero or more
OffsetFilters ==
  {Undefined} \cup
  {[Filter(t) EXCEPT !.userId = u, !.limit = l, !.offset = o] :
     t \in Tenants,
     u \in {Undefined, S("u1")},
     l \in {Undefined, Num(1)},
     o \in {Undefined, Num(0), Num(1), Num(2)}}

RetentionDays == {Undefined, Num(0), Num(1)}

(***************************************************************************)
(* The calls as steps.  last is the latest completed call with its result, *)
(* until the caller has taken it (Return).                                 *)
(***************************************************************************)
NoCall == [op |-> "none"]
Idle == last = NoCall

\* the recorders have added fewer than MaxRows rows to the table
Room(t) == Count(t) < MaxRows \/ (BulkRows <= Count(t) /\ Count(t) < BulkRows + MaxRows)

\* the call of a recorder, with arguments call, ends with result r
Recorded(call, r) ==
  /\ r.created # <<>> => Room(store)
  /\ store' = r.store
  /\ last' = call @@ [f \in DOMAIN r \ {"store"} |-> r[f]]
  /\ UNCHANGED <<now, calls, paymentMethods, requests>>

\* the call of queryAuditLogs, with arguments call, ends with result r
Queried(call, r) ==
  /\ last' = call @@ [outcome |-> r.outcome,
                      logs |-> IF r.outcome = "returned" THEN r.logs ELSE <<>>]
  /\ UNCHANGED <<store, now, calls, paymentMethods, requests>>

\* the call of exportAuditLogs, with arguments call, ends with result r
Exported(call, r) ==
  /\ last' = call @@ (IF r.outcome = "returned" THEN r
                      ELSE [outcome |-> "threw", logs |-> <<>>, header |-> <<>>,
                            lines |-> <<>>])
  /\ UNCHANGED <<store, now, calls, paymentMethods, requests>>

\* the call of deleteOldLogs, with arguments call, ends with result r
Swept(call, r) ==
  /\ store' = r.store
  /\ last' = call @@ [outcome |-> "returned", count |-> r.count,
                      cutoffDate |-> r.cutoffDate,
                      before |-> IF /\ last.op = "deleteOldLogs"
                                    /\ last.outcome = "returned"
                                    /\ last.tenantId = call.tenantId
                                    /\ last.retentionDays = call.retentionDays
                                    /\ last.cutoffDate = r.cutoffDate
                                 THEN <<last.count>> ELSE <<>>]
  /\ UNCHANGED <<now, calls, paymentMethods, requests>>

\* logAuditEvent called with one of entries
logAuditEventOf(entries) ==
  /\ Idle
  /\ \E entry \in entries, dbOk \in BOOLEAN :
       Recorded([op |-> "logAuditEvent", entry |-> entry],
                LogAuditEvent(store, now, entry, dbOk))

logAuditEvent == logAuditEventOf(Entries)

\* logPermissionChange called by one of callers with two of lists
logPermissionChangeOf(callers, lists) ==
  /\ Idle
  /\ \E c \in callers, permissionsAdded \in lists, permissionsRemoved \in lists,
        dbOk \in BOOLEAN :
       Recorded([op |-> "logPermissionChange", userId |-> c.userId,
                 tenantId |-> c.tenantId, targetUserId |-> c.targetUserId,
                 permissionsAdded |-> permissionsAdded,
                 permissionsRemoved |-> permissionsRemoved, metadata |-> c.metadata],
                LogPermissionChange(store, now, c.userId, c.tenantId, c.targetUserId,
                                    permissionsAdded, permissionsRemoved, c.metadata,
                                    dbOk))

logPermissionChange == logPermissionChangeOf({Caller1, Caller2}, PermissionLists)

\* logRoleChange called with roles and a reason of the sets given
logRoleChangeOf(fromRoles, toRoles, reasons) ==
  /\ Idle
  /\ \E c \in {Caller2}, fromRole \in fromRoles, toRole \in toRoles,
        reason \in reasons, dbOk \in BOOLEAN :
       Recorded([op |-> "logRoleChange", userId |-> c.userId,
                 tenantId |-> c.tenantId, targetUserId |-> c.targetUserId,
                 fromRole |-> fromRole, toRole |-> toRole, reason |-> reason],
                LogRoleChange(store, now, c.userId, c.tenantId, c.targetUserId, fromRole,
                              toRole, reason, dbOk))

logRoleChange ==
  logRoleChangeOf({S("USER"), S("ADMIN")}, Roles, {Undefined, S("promoted")})

\* logSettingsChange called with a section and changes of the sets given
logSettingsChangeOf(sections, payloads) ==
  /\ Idle
  /\ \E c \in {Caller1}, section \in sections, changes \in payloads,
        dbOk \in BOOLEAN :
       Recorded([op |-> "logSettingsChange", userId |-> c.userId,
                 tenantId |-> c.tenantId, section |-> section, changes |-> changes],
                LogSettingsChange(store, now, c.userId, c.tenantId, section, changes, dbOk))

logSettingsChange ==
  logSettingsChangeOf({S("billing"), Str(<<"a", COMMA, QUOTE>>)},
                      {PayloadFlat, PayloadBigInt})

\* logBulkOperation called by one of callers with one of statuses
logBulkOperationOf(callers, statuses) ==
  /\ Idle
  /\ \E c \in callers, operationType \in {S("IMPORT")},
        affectedUserCount \in {Num(3)}, status \in statuses, dbOk \in BOOLEAN :
       Recorded([op |-> "logBulkOperation", userId |-> c.userId,
                 tenantId |-> c.tenantId, operationType |-> operationType,
                 affectedUserCount |-> affectedUserCount, status |-> status,
                 metadata |-> c.metadata],
                LogBulkOperation(store, now, c.userId, c.tenantId, operationType,
                                 affectedUserCount, status, c.metadata, dbOk))

logBulkOperation == logBulkOperationOf({Caller1, Caller2}, Statuses)

\* queryAuditLogs called with one of filters
queryAuditLogsOf(filters) ==
  /\ Idle
  /\ \E filter \in filters :
       \E o \in DescOrders(Matching(store, QueryWhere(filter))) :
         Queried([op |-> "queryAuditLogs", filter |-> filter],
                 QueryAuditLogs(store, filter, o))

queryAuditLogs == queryAuditLogsOf(QueryFilters)

\* getAuditStats called with one of ranges
getAuditStatsOf(ranges) ==
  /\ Idle
  /\ \E tenantId \in Tenants, dateRange \in ranges :
       /\ last' = [op |-> "getAuditStats", tenantId |-> tenantId,
                   dateRange |-> dateRange, outcome |-> "returned",
                   stats |-> GetAuditStats(store, tenantId, dateRange)]
       /\ UNCHANGED <<store, now, calls, paymentMethods, requests>>

getAuditStats == getAuditStatsOf(DateRanges)

\* deleteOldLogs called with one of days.  The sweep can run again before the
\* result of the sweep before it is taken; before is then the count of that
\* sweep, when it had the same arguments and the same cutoff
deleteOldLogsOf(days) ==
  /\ Idle \/ last.op = "deleteOldLogs"
  /\ \E tenantId \in Tenants, retentionDays \in days :
       Swept([op |-> "deleteOldLogs", tenantId |-> tenantId,
              retentionDays |-> retentionDays],
             DeleteOldLogs(store, now, tenantId, retentionDays))

deleteOldLogs == deleteOldLogsOf(RetentionDays)

\* exportAuditLogs called with one of filters
exportAuditLogsOf(filters) ==
  /\ Idle
  /\ \E tenantId \in Tenants, filter \in filters :
       \E o \in DescOrders(Matching(store, QueryWhere(ExportFilter(tenantId, filter)))) :
         Exported([op |-> "exportAuditLogs", tenantId |-> tenantId, filter |-> filter],
                  ExportAuditLogs(store, tenantId, filter, o))

exportAuditLogs == exportAuditLogsOf(ExportFilters)

(***************************************************************************)
(* The store call of a read or of the sweep can be rejected.  None of the   *)
(* four methods has a try block, so the rejection is the result of the      *)
(* call; the methods above are the calls the store answers.                 *)
(***************************************************************************)
\* a rejection that is caught, as in logAuditEvent
Swallowed(call, storeCall) ==
  /\ last' = call @@ [outcome |-> "returned", error |-> storeCall, attempts |-> 1,
                      logs |-> <<>>, header |-> <<>>, lines |-> <<>>]
  /\ UNCHANGED <<store, now, calls, paymentMethods, requests>>

\* the call with arguments call ends when its one store call is rejected
Rejected(call, storeCall) ==
  /\ last' = call @@ [outcome |-> "threw", error |-> storeCall, attempts |-> 1,
                      logs |-> <<>>, header |-> <<>>, lines |-> <<>>]
  /\ UNCHANGED <<store, now, calls, paymentMethods, requests>>

\* queryAuditLogs, findMany rejected
queryAuditLogsRejected(filters) ==
  /\ Idle
  /\ \E filter \in filters :
       Rejected([op |-> "queryAuditLogs", filter |-> filter], "findMany")

\* getAuditStats, groupBy rejected
getAuditStatsRejected(ranges) ==
  /\ Idle
  /\ \E tenantId \in Tenants, dateRange \in ranges :
       Rejected([op |-> "getAuditStats", tenantId |-> tenantId,
                 dateRange |-> dateRange], "groupBy")

\* deleteOldLogs, deleteMany rejected
deleteOldLogsRejected(days) ==
  /\ Idle \/ last.op = "deleteOldLogs"
  /\ \E tenantId \in Tenants, retentionDays \in days :
       Rejected([op |-> "deleteOldLogs", tenantId |-> tenantId,
                 retentionDays |-> retentionDays], "deleteMany")

\* exportAuditLogs, the findMany of its queryAuditLogs rejected
exportAuditLogsRejected(filters) ==
  /\ Idle
  /\ \E tenantId \in Tenants, filter \in filters :
       Rejected([op |-> "exportAuditLogs", tenantId |-> tenantId, filter |-> filter],
                "findMany")

(***************************************************************************)
(* logAuditEvent is an async function: a call runs to its await, the store  *)
(* answers the create at some later time, and the call then runs to its     *)
(* end.  The steps of calls in flight interleave.  calls numbers the calls  *)
(* in the order they started.                                               *)
(***************************************************************************)
NoCalls == <<>>

\* a call starts: the data object is built, JSON.stringify and new Date()
\* included, and the create is sent; a throw of JSON.stringify is caught
logAuditEventStart ==
  /\ Len(calls) < MaxCalls
  /\ \E entry \in {EntryLogin, EntryDelete, EntryBigInt} :
       LET built == CreateData(entry, now)
       IN calls' = Append(calls,
                     IF built.ok
                     THEN [pc |-> "await", entry |-> entry, at |-> now,
                           data |-> <<built.data>>, error |-> "none", creates |-> 0]
                     ELSE [pc |-> "done", entry |-> entry, at |-> now,
                           data |-> <<>>, error |-> "stringify", creates |-> 0])
  /\ UNCHANGED <<store, now, last, paymentMethods, requests>>

\* the store answers the create of a call in flight: the row is inserted, or
\* the create is rejected
auditLogCreate ==
  \E i \in DOMAIN calls, dbOk \in BOOLEAN :
    /\ calls[i].pc = "await"
    /\ store' = IF dbOk
                THEN PrismaCreate(store, StoredRow(calls[i].data[1], calls[i].entry))
                ELSE store
    /\ calls' = [calls EXCEPT ![i].pc = IF dbOk THEN "fulfilled" ELSE "rejected",
                              ![i].creates = @ + 1]
    /\ UNCHANGED <<now, last, paymentMethods, requests>>

\* a call that sends its create again when the create was rejected
logAuditEventResumeRetry ==
  \E i \in DOMAIN calls :
    /\ calls[i].pc \in {"fulfilled", "rejected"}
    /\ calls' = [calls EXCEPT ![i].pc = IF calls[i].pc = "rejected" /\ calls[i].creates < 2
                                        THEN "await" ELSE "done",
                              ![i].error = IF calls[i].pc = "rejected" THEN "create"
                                           ELSE "none"]
    /\ UNCHANGED <<store, now, last, paymentMethods, requests>>

\* a call goes on after its await: it returns, through the catch block when
\* the create was rejected
logAuditEventResume ==
  \E i \in DOMAIN calls :
    /\ calls[i].pc \in {"fulfilled", "rejected"}
    /\ calls' = [calls EXCEPT ![i].pc = "done",
                              ![i].error = IF calls[i].pc = "rejected" THEN "create"
                                           ELSE "none"]
    /\ UNCHANGED <<store, now, last, paymentMethods, requests>>

(***************************************************************************)
(* deleteOldLogs is an async function too: it computes the cutoff from the  *)
(* clock, the store runs deleteMany at some later time, and the call then   *)
(* returns the count.  Its steps interleave with those of the logAuditEvent *)
(* calls in flight.  The sweep remembers the calls whose create the store   *)
(* had not answered when it ran deleteMany (pending).                       *)
(***************************************************************************)
SweepDays == {Num(0), Num(1)}

\* a sweep starts: the cutoff is computed and deleteMany is sent
deleteOldLogsStart ==
  /\ Len(calls) < MaxCalls
  /\ \E tenantId \in Tenants, retentionDays \in SweepDays :
       calls' = Append(calls,
                       [pc |-> "deleting", tenantId |-> tenantId,
                        retentionDays |-> retentionDays, at |-> now,
                        cutoffDate |-> DeleteOldLogs(store, now, tenantId,
                                                     retentionDays).cutoffDate,
                        count |-> 0, pending |-> {}])
  /\ UNCHANGED <<store, now, last, paymentMethods, requests>>

\* the sweep i ends its deleteMany with result r, or with a rejection
DeleteManyDone(i, r, dbOk) ==
  /\ store' = IF dbOk THEN r.store ELSE store
  /\ calls' = [calls EXCEPT ![i].pc = IF dbOk THEN "deleted" ELSE "notDeleted",
                            ![i].count = IF dbOk THEN r.count ELSE 0,
                            ![i].pending = {j \in DOMAIN calls : calls[j].pc = "await"}]
  /\ UNCHANGED <<now, last, paymentMethods, requests>>

\* the store answers the deleteMany of a sweep in flight
auditLogDeleteMany ==
  \E i \in DOMAIN calls, dbOk \in BOOLEAN :
    /\ calls[i].pc = "deleting"
    /\ DeleteManyDone(i, DeleteOldLogs(store, calls[i].at, calls[i].tenantId,
                                       calls[i].retentionDays), dbOk)

\* a sweep goes on after its await: it returns the count, or throws
deleteOldLogsResume ==
  \E i \in DOMAIN calls :
    /\ calls[i].pc \in {"deleted", "notDeleted"}
    /\ calls' = [calls EXCEPT ![i].pc = IF calls[i].pc = "deleted" THEN "swept"
                                        ELSE "threw"]
    /\ UNCHANGED <<store, now, last, paymentMethods, requests>>

\* the caller takes the result of the latest call
Return == ~Idle /\ last' = NoCall /\ UNCHANGED <<store, now, calls, paymentMethods, requests>>

\* the clock advances by a day
Tick == now < MaxTime /\ now' = now + 1 /\ UNCHANGED <<store, last, calls, paymentMethods, requests>>

EmptyTable == [r \in {} |-> 0]

\* a table that holds BulkRows rows written by logAuditEvent(EntryLogin) on day 0
BulkTable ==
  [r \in {StoredRow(CreateData(EntryLogin, 0).data, EntryLogin)} |-> BulkRows]

\* a table with rows this service did not write: the changes of one are cut
\* off in the middle, the metadata of the other are "[object Object]"
LegacyTable ==
  LET row == [StoredRow(CreateData(EntryLogin, 0).data, Undefined)
                EXCEPT !.changes = Str(<<"{", QUOTE, "a", QUOTE, ":", QUOTE, "x">>)]
  IN [r \in {row,
             [row EXCEPT !.tenantId = S("t2"), !.changes = Null,
                         !.metadata = Str(<<"[", "object Object", "]">>)]} |-> 1]

\* the service keeps no state of its own; the table is empty at first
Init == store = EmptyTable /\ now = 0 /\ last = NoCall /\ calls = NoCalls
  /\ paymentMethods = <<>> /\ requests = <<>>

\* the table is empty at first, or large
InitStore ==
  store \in {EmptyTable, BulkTable} /\ now = 0 /\ last = NoCall /\ calls = NoCalls
  /\ paymentMethods = <<>> /\ requests = <<>>

Next ==
  \/ Return
  \/ Tick
  \/ logAuditEvent
  \/ logPermissionChange
  \/ logRoleChange
  \/ logSettingsChange
  \/ logBulkOperation
  \/ queryAuditLogs
  \/ getAuditStats
  \/ deleteOldLogs
  \/ exportAuditLogs
  \/ queryAuditLogsRejected(QueryFilters)
  \/ getAuditStatsRejected(DateRanges)
  \/ deleteOldLogsRejected(RetentionDays)
  \/ exportAuditLogsRejected(ExportFilters)
  \/ logAuditEventStart
  \/ auditLogCreate
  \/ logAuditEventResume
  \/ deleteOldLogsStart
  \/ auditLogDeleteMany
  \/ deleteOldLogsResume

Spec == InitStore /\ [][Next]_vars

(***************************************************************************)
(* The reads change neither the table nor the clock, and every recorder    *)
(* writes through logAuditEvent, so the tables a family of calls can meet  *)
(* are those the writers logAuditEvent and deleteOldLogs produce.          *)
(***************************************************************************)
\* the five recorders on one day
NextRecorders ==
  \/ Return
  \/ logAuditEvent
  \/ logPermissionChange
  \/ logRoleChange
  \/ logSettingsChange
  \/ logBulkOperation

SpecRecorders == Init /\ [][NextRecorders]_vars

\* the generic recorder with the reads, the sweep and the export
\* the table holds rows of other writers
InitLegacy == store = LegacyTable /\ now = 0 /\ last = NoCall /\ calls = NoCalls
  /\ paymentMethods = <<>> /\ requests = <<>>

NextLegacy ==
  \/ Return
  \/ Tick
  \/ logAuditEvent
  \/ queryAuditLogs
  \/ exportAuditLogs

\* logAuditEvent and the reads on a table with rows of other writers
SpecLegacy == InitLegacy /\ [][NextLegacy]_vars

NextSweep ==
  \/ Tick
  \/ logAuditEventStart
  \/ auditLogCreate
  \/ logAuditEventResume
  \/ deleteOldLogsStart
  \/ auditLogDeleteMany
  \/ deleteOldLogsResume

\* sweeps and logAuditEvent calls in flight at the same time
SpecSweep == Init /\ [][NextSweep]_vars

NextPermissions ==
  \/ Return
  \/ logPermissionChangeOf(Callers, MixedLists)

\* logPermissionChange with lists of every kind, on one day
SpecPermissions == Init /\ [][NextPermissions]_vars

NextExport ==
  \/ Return
  \/ Tick
  \/ logAuditEventOf(PagedEntries)
  \/ exportAuditLogsOf(OffsetFilters)

\* logAuditEvent and exportAuditLogs with offsets of every kind, on a table
\* that is empty or large at first
SpecExport == InitStore /\ [][NextExport]_vars

NextPaging ==
  \/ Return
  \/ Tick
  \/ logAuditEventOf(PagedEntries)
  \/ queryAuditLogsOf(PagingFilters)

\* logAuditEvent and queryAuditLogs with pages of every kind, on a table that
\* is empty or large at first
SpecPaging == InitStore /\ [][NextPaging]_vars

NextFilters ==
  \/ Return
  \/ Tick
  \/ logAuditEventOf({EntryLogin, EntryDelete, EntryFailed})
  \/ queryAuditLogsOf(FilterCases)

\* logAuditEvent and queryAuditLogs with filters of every kind
SpecFilters == Init /\ [][NextFilters]_vars

NextFailing ==
  \/ Return
  \/ Tick
  \/ logAuditEventOf({EntryLogin, EntryDelete})
  \/ queryAuditLogsOf({Filter(t) : t \in Tenants})
  \/ getAuditStatsOf({Undefined, DateRange(0, 1)})
  \/ deleteOldLogsOf({Num(0), Num(1)})
  \/ exportAuditLogsOf({Undefined})
  \/ queryAuditLogsRejected({Filter(t) : t \in Tenants})
  \/ getAuditStatsRejected({Undefined, DateRange(0, 1)})
  \/ deleteOldLogsRejected({Num(0), Num(1)})
  \/ exportAuditLogsRejected({Undefined})

\* the reads, the sweep and the export with a store that answers or rejects
SpecFailing == Init /\ [][NextFailing]_vars

NextConcurrent ==
  \/ Tick
  \/ logAuditEventStart
  \/ auditLogCreate
  \/ logAuditEventResume

\* calls of logAuditEvent in flight at the same time, from an empty table
SpecConcurrent == Init /\ [][NextConcurrent]_vars

\* every operation, each with one or two inputs
NextService ==
  \/ Return
  \/ Tick
  \/ logAuditEventOf({EntryLogin, EntryDelete})
  \/ logPermissionChangeOf({Caller1}, PermissionLists)
  \/ logRoleChangeOf({S("ADMIN")}, {S("ADMIN")}, {Undefined})
  \/ logSettingsChangeOf({S("billing")}, {PayloadFlat})
  \/ logBulkOperationOf({Caller1}, {S("FAILED")})
  \/ queryAuditLogsOf({Filter(t) : t \in Tenants})
  \/ getAuditStatsOf({Undefined})
  \/ deleteOldLogsOf({Num(0), Num(1)})
  \/ exportAuditLogsOf({Undefined})

\* every operation of the service, each on a few inputs, from an empty table
SpecService == Init /\ [][NextService]_vars

NextStore ==
  \/ Return
  \/ Tick
  \/ logAuditEvent
  \/ queryAuditLogs
  \/ getAuditStats
  \/ deleteOldLogs
  \/ exportAuditLogs

SpecStore == InitStore /\ [][NextStore]_vars

(***************************************************************************)
(* Properties                                                              *)
(***************************************************************************)
RecorderOps ==
  {"logAuditEvent", "logPermissionChange", "logRoleChange", "logSettingsChange",
   "logBulkOperation"}

\* C1: every entry queryAuditLogs returns for a filter with tenantId = T has
\* tenantId = T, whatever the other fields of the filter are
TenantIsolation ==
  (last.op = "queryAuditLogs" /\ last.outcome = "returned") =>
    \A i \in DOMAIN last.logs : last.logs[i].row.tenantId = last.filter.tenantId

\* a query returned entries from a table that also holds another tenant's
TenantIsolationWitness ==
  /\ last.op = "queryAuditLogs"
  /\ last.logs # <<>>
  /\ \E r \in DOMAIN store : r.tenantId # last.filter.tenantId
  /\ \E r \in DOMAIN store : r.tenantId = last.filter.tenantId

\* C2: logAuditEvent and the four recorders that delegate to it return
\* normally, also when create fails or changes/metadata cannot be serialized
RecordersNeverRaise ==
  last.op \in RecorderOps => last.outcome = "returned"

\* a convenience recorder met a failing create, and one met a value that
\* JSON.stringify rejects
RecordersNeverRaiseWitness ==
  \/ last.op = "logBulkOperation" /\ last.error = "create"
  \/ last.op = "logSettingsChange" /\ last.error = "stringify"

\* C9: logPermissionChange with both lists empty leaves the table as it was
\* and does not call logAuditEvent, whatever the other arguments
PermissionNoOp ==
  [][(/\ last'.op = "logPermissionChange"
      /\ last' # last
      /\ last'.permissionsAdded = <<>>
      /\ last'.permissionsRemoved = <<>>)
     => (store' = store /\ ~last'.called /\ last'.outcome = "returned")]_vars

\* logPermissionChange was called with both lists empty, and with metadata,
\* on a table that holds rows
PermissionNoOpWitness ==
  /\ last.op = "logPermissionChange"
  /\ last.permissionsAdded = <<>> /\ last.permissionsRemoved = <<>>
  /\ last.metadata = PayloadFlat
  /\ Count(store) > 0

\* C10: logPermissionChange with a non-empty list records one entry; its
\* actionType is PERMISSION_GRANTED whenever permissionsAdded is non-empty
\* (also when permissionsRemoved is non-empty too), PERMISSION_REVOKED exactly
\* when permissionsAdded is empty and permissionsRemoved is not; its severity
\* is INFO
PermissionClassification ==
  (/\ last.op = "logPermissionChange"
   /\ (last.permissionsAdded # <<>> \/ last.permissionsRemoved # <<>>)) =>
    /\ last.called
    /\ last.error = "none" => Len(last.created) = 1
    /\ \A i \in DOMAIN last.created :
         LET row == last.created[i]
         IN /\ row \in DOMAIN store
            /\ last.permissionsAdded # <<>> => row.actionType = S("PERMISSION_GRANTED")
            /\ row.actionType = S("PERMISSION_REVOKED") <=>
                 (last.permissionsAdded = <<>> /\ last.permissionsRemoved # <<>>)
            /\ row.actionType \in {S("PERMISSION_GRANTED"), S("PERMISSION_REVOKED")}
            /\ row.severity = S("INFO")

\* a call with both lists non-empty recorded a PERMISSION_GRANTED entry
PermissionClassificationWitness ==
  /\ last.op = "logPermissionChange"
  /\ last.permissionsAdded # <<>> /\ last.permissionsRemoved # <<>>
  /\ last.created # <<>>
  /\ last.created[1].actionType = S("PERMISSION_GRANTED")

\* C4: deleteOldLogs(T, d), d defaulting to 90, removes exactly the entries of
\* tenant T whose timestamp is strictly earlier than now minus d days, returns
\* their number, and leaves every other entry (other tenants', and T's entries
\* at or after the cutoff) as it was
SweepEffect ==
  [][(last'.op = "deleteOldLogs" /\ (last' # last \/ store' # store)) =>
       LET days == IF last'.retentionDays = Undefined THEN 90
                   ELSE last'.retentionDays.n
           old == {r \in DOMAIN store :
                     r.tenantId = last'.tenantId /\ r.timestamp < now - days}
       IN /\ DOMAIN store' = DOMAIN store \ old
          /\ \A r \in DOMAIN store' : store'[r] = store[r]
          /\ last'.count = SumOver(store, old)
          /\ last'.count = Count(store) - Count(store')
          /\ last'.outcome = "returned"]_vars

\* a sweep removed entries, kept an entry of the tenant that lies on the cutoff
\* and kept an older entry of another tenant
SweepEffectWitness ==
  /\ last.op = "deleteOldLogs"
  /\ last.count > 0
  /\ \E r \in DOMAIN store :
       r.tenantId = last.tenantId /\ r.timestamp = last.cutoffDate
  /\ \E r \in DOMAIN store :
       r.tenantId # last.tenantId /\ r.timestamp < last.cutoffDate

\* C5: deleteOldLogs(T, d) called again directly after deleteOldLogs(T, d),
\* nothing written in between and the clock on the same day, returns 0 and
\* leaves the table as the first call left it
SweepIdempotent ==
  [][(last'.op = "deleteOldLogs" /\ last'.before # <<>>) =>
       (last'.count = 0 /\ store' = store)]_vars

\* the second of two sweeps returned 0 after the first had removed entries
SweepIdempotentWitness ==
  /\ last.op = "deleteOldLogs"
  /\ last.before # <<>>
  /\ last.before[1] > 0
  /\ last.count = 0

\* C6: for every action type A, the count getAuditStats(T, dateRange) reports
\* for A is the number of entries queryAuditLogs returns for the same tenant
\* and range, actionType A, offset 0 and a limit that covers every match; an
\* action type without such entries has no key.  The counts are not capped by
\* the default limit of queries.
StatsAgreeWithQuery ==
  last.op = "getAuditStats" =>
    /\ DOMAIN last.stats \subseteq {S(a) : a \in AuditActionType}
    /\ \A a \in AuditActionType :
         LET filter == [Filter(last.tenantId) EXCEPT
                          !.actionType = S(a), !.dateRange = last.dateRange,
                          !.limit = Num(Count(store) + 1)]
         IN \A o \in DescOrders(Matching(store, QueryWhere(filter))) :
              LET q == QueryAuditLogs(store, filter, o)
              IN /\ q.outcome = "returned"
                 /\ IF Total(q.logs) = 0 THEN S(a) \notin DOMAIN last.stats
                    ELSE /\ S(a) \in DOMAIN last.stats
                         /\ last.stats[S(a)] = Total(q.logs)

\* statistics with two action types, one of them counted more than 100 times
StatsAgreeWithQueryWitness ==
  /\ last.op = "getAuditStats"
  /\ Cardinality(DOMAIN last.stats) >= 2
  /\ \E a \in DOMAIN last.stats : last.stats[a] > 100

\* the number of entries of the tenant an export is for
ExportMatches ==
  SumOver(store, {r \in DOMAIN store : r.tenantId = last.tenantId})

\* the offset the caller of an export put in the filter
ExportOffset ==
  IF last.filter = Undefined \/ last.filter.offset = Undefined THEN 0
  ELSE last.filter.offset.n

\* C7: exportAuditLogs never emits more than 10,000 data rows, whatever limit
\* the filter carries, and emits exactly 10,000 when at least 10,000 matching
\* entries remain after the offset of the filter
ExportCap ==
  (last.op = "exportAuditLogs" /\ last.outcome = "returned") =>
    /\ Total(last.lines) <= 10000
    /\ ExportMatches - ExportOffset >= 10000 => Total(last.lines) = 10000

\* an export with a limit of 20,000 and an offset emitted exactly 10,000 rows
ExportCapWitness ==
  /\ last.op = "exportAuditLogs"
  /\ last.filter # Undefined
  /\ last.filter.limit = Num(20000)
  /\ last.filter.offset = Num(2)
  /\ Total(last.lines) = 10000

\* C7 as stated: exactly 10,000 data rows whenever more than 10,000 entries
\* match, and never more than 10,000
ExportCapAsStated ==
  (last.op = "exportAuditLogs" /\ last.outcome = "returned") =>
    /\ Total(last.lines) <= 10000
    /\ ExportMatches > 10000 => Total(last.lines) = 10000

\* a field as it was passed and as it reads back: the same value, an omitted
\* optional field reading back as null
Same(read, passed) ==
  \/ read = passed
  \/ read = Null /\ passed = Undefined

\* the entry a query returned against the entry that was passed to logAuditEvent
Faithful(row, entry) ==
  /\ \A f \in {"actionType", "severity", "userId", "tenantId", "targetUserId",
               "targetResourceId", "targetResourceType", "description", "ipAddress",
               "userAgent"} : Same(row[f], entry[f])
  /\ Same(row.changes, entry.changes)
  /\ Same(row.metadata, entry.metadata)

\* the stored entries of the tenant of the latest query that lie in its date range
InTenantAndRange ==
  {r \in DOMAIN store :
     /\ r.tenantId = last.filter.tenantId
     /\ last.filter.dateRange.startDate <= r.timestamp
     /\ r.timestamp <= last.filter.dateRange.endDate}

\* the latest call is a query by tenantId and dateRange, no other column named
QueryByTenantAndRange ==
  /\ last.op = "queryAuditLogs"
  /\ last.filter.dateRange # Undefined
  /\ last.filter.userId = Undefined /\ last.filter.actionType = Undefined
  /\ last.filter.targetUserId = Undefined /\ last.filter.severity = Undefined

\* C3: for every entry written by a successful logAuditEvent and still stored,
\* queryAuditLogs filtered by the entry's tenantId and a dateRange containing
\* its timestamp, with no offset and a limit (100 when absent) that covers the
\* matching entries, returns an entry whose ten plain fields are what was
\* passed in (null for an omitted one) and whose changes and metadata are
\* deep-equal to what was passed in
RoundTrip ==
  (/\ QueryByTenantAndRange
   /\ last.filter.offset = Undefined
   /\ SumOver(store, InTenantAndRange) <=
        (IF last.filter.limit = Undefined THEN 100 ELSE last.filter.limit.n)) =>
    /\ last.outcome = "returned"
    /\ \A r \in InTenantAndRange :
         \E i \in DOMAIN last.logs :
           /\ Faithful(last.logs[i].row, r.passed)
           /\ last.logs[i].row.timestamp = r.timestamp
           /\ last.logs[i].n = store[r]

\* a query by tenant and range returned an entry with nested changes, quotes
\* and line breaks in them, next to another entry
RoundTripWitness ==
  /\ QueryByTenantAndRange
  /\ Len(last.logs) >= 2
  /\ \E i \in DOMAIN last.logs :
       /\ last.logs[i].row.passed.changes = PayloadNested
       /\ last.logs[i].row.changes = PayloadNested
       /\ last.logs[i].row.metadata = PayloadFlat

\* C3 as stated: every stored entry of the tenant in the range comes back from
\* the query by tenantId and dateRange alone
RoundTripAsStated ==
  (/\ QueryByTenantAndRange
   /\ last.filter.offset = Undefined /\ last.filter.limit = Undefined) =>
    /\ last.outcome = "returned"
    /\ \A r \in InTenantAndRange :
         \E i \in DOMAIN last.logs :
           /\ Faithful(last.logs[i].row, r.passed)
           /\ last.logs[i].row.timestamp = r.timestamp

RECURSIVE ReadQuoted(_, _, _)
\* the quoted CSV field whose opening quote ends before position i of text t
ReadQuoted(t, i, acc) ==
  IF i > Len(t) THEN [ok |-> FALSE]
  ELSE IF t[i] = QUOTE
  THEN IF i + 1 <= Len(t) /\ t[i + 1] = QUOTE
       THEN ReadQuoted(t, i + 2, Append(acc, QUOTE))
       ELSE [ok |-> TRUE, v |-> acc, quoted |-> TRUE, i |-> i + 1]
  ELSE ReadQuoted(t, i + 1, Append(acc, t[i]))

RECURSIVE ReadPlain(_, _, _)
\* the unquoted CSV field that starts at position i of text t
ReadPlain(t, i, acc) ==
  IF i > Len(t) \/ t[i] \in {COMMA, NEWLINE}
  THEN [ok |-> TRUE, v |-> acc, quoted |-> FALSE, i |-> i]
  ELSE IF t[i] = QUOTE THEN [ok |-> FALSE]
  ELSE ReadPlain(t, i + 1, Append(acc, t[i]))

RECURSIVE ReadRecords(_, _, _, _)
\* the records of the CSV text t from the field at position i on
ReadRecords(t, i, rec, recs) ==
  LET f == IF i <= Len(t) /\ t[i] = QUOTE THEN ReadQuoted(t, i + 1, <<>>)
           ELSE ReadPlain(t, i, <<>>)
  IN IF ~f.ok THEN [ok |-> FALSE]
     ELSE LET field == [v |-> f.v, quoted |-> f.quoted]
          IN IF f.i > Len(t)
             THEN [ok |-> TRUE, records |-> Append(recs, Append(rec, field))]
             ELSE IF t[f.i] = COMMA
             THEN ReadRecords(t, f.i + 1, Append(rec, field), recs)
             ELSE IF t[f.i] = NEWLINE
             THEN ReadRecords(t, f.i + 1, <<>>, Append(recs, Append(rec, field)))
             ELSE [ok |-> FALSE]

\* a reader of CSV text: records of fields, quoted fields holding commas, line
\* breaks and doubled quotes
ReadCsv(t) == ReadRecords(t, 1, <<>>, <<>>)

\* cells as a reader finds them when every one of them is quoted
AsRead(cells) == [i \in DOMAIN cells |-> [v |-> cells[i], quoted |-> TRUE]]

RECURSIVE Repeated(_)
\* blocks with each line written as many times as it has copies
Repeated(blocks) ==
  IF blocks = <<>> THEN <<>>
  ELSE [j \in 1..Head(blocks).n |-> Head(blocks).line] \o Repeated(Tail(blocks))

\* the text exportAuditLogs returned
ExportText == Join(<<last.header>> \o Repeated(last.lines), <<NEWLINE>>)

\* whether text t holds the run of characters part
Contains(t, part) ==
  \E j \in 1..(Len(t) - Len(part) + 1) : SubSeq(t, j, j + Len(part) - 1) = part

\* C8: every field of every data row of an export is wrapped in double quotes
\* with each embedded double quote doubled, also around commas and line breaks:
\* a CSV reader gets the original eight values back from each line and, from
\* the whole text, the header and the rows in order; the description
\* Say "hi" is written "Say ""hi"""
CsvQuoting ==
  (last.op = "exportAuditLogs" /\ last.outcome = "returned") =>
    /\ \A i \in DOMAIN last.lines :
         /\ ReadCsv(last.lines[i].line) =
              [ok |-> TRUE, records |-> <<AsRead(CsvCells(last.logs[i].row))>>]
         /\ last.logs[i].row.description = Str(<<"Say ", QUOTE, "hi", QUOTE>>) =>
              Contains(last.lines[i].line,
                       <<COMMA, QUOTE, "Say ", QUOTE, QUOTE, "hi", QUOTE, QUOTE, QUOTE,
                         COMMA>>)
    /\ Total(last.lines) < 100 =>
         LET text == ReadCsv(ExportText)
         IN /\ text.ok
            /\ Len(text.records) = 1 + Total(last.lines)
            /\ [j \in DOMAIN CsvHeaders |-> text.records[1][j].v] = CsvHeaders
            /\ Tail(text.records) =
                 Repeated([i \in DOMAIN last.lines |->
                             [line |-> AsRead(CsvCells(last.logs[i].row)),
                              n |-> last.lines[i].n]])

\* the characters of a string value
Chars(v) == {v.s[j] : j \in DOMAIN v.s}

\* an export of two rows, one of them with a quote in its user id and a comma
\* and a line break in its description
CsvQuotingWitness ==
  /\ last.op = "exportAuditLogs"
  /\ Total(last.lines) = 2
  /\ \E i \in DOMAIN last.logs :
       /\ QUOTE \in Chars(last.logs[i].row.userId)
       /\ COMMA \in Chars(last.logs[i].row.description)
       /\ NEWLINE \in Chars(last.logs[i].row.description)

\* C11: the entry logRoleChange records has actionType ROLE_CHANGED, severity
\* CRITICAL exactly when toRole is SUPER_ADMIN or ADMIN and severity INFO for
\* every other toRole, whatever fromRole and reason are
RoleChangeSeverity ==
  last.op = "logRoleChange" =>
    \A i \in DOMAIN last.created :
      LET row == last.created[i]
      IN /\ row \in DOMAIN store
         /\ row.actionType = S("ROLE_CHANGED")
         /\ row.severity = S("CRITICAL") <=>
              last.toRole \in {S("SUPER_ADMIN"), S("ADMIN")}
         /\ row.severity \in {S("CRITICAL"), S("INFO")}

\* a change from ADMIN to the role admin, with a reason, was recorded as INFO
RoleChangeSeverityWitness ==
  /\ last.op = "logRoleChange"
  /\ last.fromRole = S("ADMIN") /\ last.toRole = S("admin")
  /\ last.reason # Undefined
  /\ last.created # <<>>
  /\ last.created[1].severity = S("INFO")

\* C12: every logRoleChange call whose create succeeds adds exactly one entry
\* to the table, also when fromRole equals toRole
RoleChangeAlwaysRecords ==
  [][(last'.op = "logRoleChange" /\ last' # last /\ last'.error = "none") =>
       /\ Len(last'.created) = 1
       /\ Count(store') = Count(store) + 1
       /\ \A r \in DOMAIN store' :
            store'[r] = (IF r \in DOMAIN store THEN store[r] ELSE 0)
                        + (IF r = last'.created[1] THEN 1 ELSE 0)
       /\ last'.created[1].changes =
            Str(JsonText(Obj(<< <<<<"fromRole">>, last'.fromRole>>,
                                <<<<"toRole">>, last'.toRole>> >>)))]_vars

\* a change from ADMIN to ADMIN was recorded
RoleChangeAlwaysRecordsWitness ==
  /\ last.op = "logRoleChange"
  /\ last.fromRole = last.toRole
  /\ last.created # <<>>
  /\ last.created[1] \in DOMAIN store

\* C13: logBulkOperation records BULK_OPERATION_STARTED for status STARTED,
\* BULK_OPERATION_COMPLETED for COMPLETED and BULK_OPERATION_FAILED for FAILED;
\* the severity is WARNING exactly when the status is FAILED and INFO otherwise
BulkOperationMapping ==
  last.op = "logBulkOperation" =>
    /\ last.error = "none" => Len(last.created) = 1
    /\ \A i \in DOMAIN last.created :
         LET row == last.created[i]
         IN /\ row \in DOMAIN store
            /\ last.status = S("STARTED") => row.actionType = S("BULK_OPERATION_STARTED")
            /\ last.status = S("COMPLETED") =>
                 row.actionType = S("BULK_OPERATION_COMPLETED")
            /\ last.status = S("FAILED") => row.actionType = S("BULK_OPERATION_FAILED")
            /\ row.severity = S("WARNING") <=> last.status = S("FAILED")
            /\ row.severity \in {S("WARNING"), S("INFO")}

\* a FAILED bulk operation was recorded with a warning
BulkOperationMappingWitness ==
  /\ last.op = "logBulkOperation"
  /\ last.status = S("FAILED")
  /\ last.created # <<>>
  /\ last.created[1].severity = S("WARNING")
  /\ last.created[1].actionType = S("BULK_OPERATION_FAILED")

\* C14: every entry logSettingsChange records has actionType SETTING_CHANGED,
\* severity INFO, targetResourceType SETTINGS and the section argument as its
\* targetResourceId, for every section and every changes value
SettingsChangeFields ==
  last.op = "logSettingsChange" =>
    /\ last.error = "none" => Len(last.created) = 1
    /\ \A i \in DOMAIN last.created :
         LET row == last.created[i]
         IN /\ row \in DOMAIN store
            /\ row.actionType = S("SETTING_CHANGED")
            /\ row.severity = S("INFO")
            /\ row.targetResourceType = S("SETTINGS")
            /\ row.targetResourceId = last.section

\* a change of the section whose name holds a comma and a quote was recorded
SettingsChangeFieldsWitness ==
  /\ last.op = "logSettingsChange"
  /\ last.section = Str(<<"a", COMMA, QUOTE>>)
  /\ last.created # <<>>

\* the day the first field of a CSV line names
LineDay(line) ==
  CHOOSE d \in 0..now : ReadCsv(line).records[1][1].v = ToISOString(d)

\* C15: the entries queryAuditLogs returns are in order of non-increasing
\* timestamp for every filter, and the data rows of exportAuditLogs are written
\* in the order of the entries the query gave it
NewestFirst ==
  (last.op \in {"queryAuditLogs", "exportAuditLogs"} /\ last.outcome = "returned") =>
    /\ \A i, j \in DOMAIN last.logs :
         i < j => last.logs[i].row.timestamp >= last.logs[j].row.timestamp
    /\ last.op = "exportAuditLogs" =>
         /\ Len(last.lines) = Len(last.logs)
         /\ \A i \in DOMAIN last.lines :
              /\ last.lines[i].n = last.logs[i].n
              /\ LineDay(last.lines[i].line) = last.logs[i].row.timestamp
         /\ \A i, j \in DOMAIN last.lines :
              i < j => LineDay(last.lines[i].line) >= LineDay(last.lines[j].line)

\* an export whose rows are of different days, the newer one first
NewestFirstWitness ==
  /\ last.op = "exportAuditLogs"
  /\ Len(last.lines) >= 2
  /\ LineDay(last.lines[1].line) > LineDay(last.lines[Len(last.lines)].line)

\* the number of rows the query of the latest call has to return
PageSize ==
  LET f == IF last.op = "exportAuditLogs" THEN ExportFilter(last.tenantId, last.filter)
           ELSE last.filter
      matches == SumOver(store, Matching(store, QueryWhere(f)))
      rest == IF matches > QuerySkip(f) THEN matches - QuerySkip(f) ELSE 0
  IN IF rest < QueryTake(f) THEN rest ELSE QueryTake(f)

\* C16: queryAuditLogs does not throw when the changes or metadata of a stored
\* entry is not valid JSON: it returns the full page, with null for the field
\* that cannot be parsed
MalformedDegrades ==
  last.op = "queryAuditLogs" =>
    /\ last.outcome = "returned"
    /\ Total(last.logs) = PageSize
    /\ \A i \in DOMAIN last.logs :
         /\ last.logs[i].row.changes.k # "string"
         /\ last.logs[i].row.metadata.k # "string"

\* the rows of which the table holds fewer copies after a step than before
Gone ==
  {r \in DOMAIN store : r \notin DOMAIN store' \/ store'[r] < store[r]}

\* the rows of which the table holds more copies after a step than before
Come ==
  {r \in DOMAIN store' : r \notin DOMAIN store \/ store'[r] > store[r]}

\* C17: every entry in the table has the field values, timestamp included, it
\* was created with, and no operation of the service updates an entry: no step
\* replaces an entry by another
EntriesImmutable ==
  [][/\ \A r \in DOMAIN store' :
          r = StoredRow(CreateData(r.passed, r.timestamp).data, r.passed)
     /\ Gone = {} \/ Come = {}]_vars

\* an entry of an earlier day is in the table after a sweep removed others
EntriesImmutableWitness ==
  /\ last.op = "deleteOldLogs"
  /\ last.count > 0
  /\ \E r \in DOMAIN store : r.timestamp < now

\* C18: queryAuditLogs, getAuditStats and exportAuditLogs leave the table as it
\* is, the recorders only add entries, and an entry leaves the table only in a
\* deleteOldLogs call for its own tenant whose cutoff is later than its
\* timestamp
OnlySweepRemoves ==
  [][/\ last'.op \in {"queryAuditLogs", "getAuditStats", "exportAuditLogs"} =>
          store' = store
     /\ last'.op \in RecorderOps => Gone = {}
     /\ \A r \in Gone :
          /\ last'.op = "deleteOldLogs"
          /\ last' # last
          /\ last'.tenantId = r.tenantId
          /\ last'.cutoffDate > r.timestamp]_vars

\* a sweep removed entries and left an entry of its tenant that lies on the
\* cutoff
OnlySweepRemovesWitness ==
  /\ last.op = "deleteOldLogs"
  /\ last.count > 0
  /\ \E r \in DOMAIN store :
       r.tenantId = last.tenantId /\ r.timestamp = last.cutoffDate

\* C19: the timestamp of the entry a logAuditEvent call stores is the clock
\* read in that call, also when the entry passed carries a timestamp of the
\* caller, and it is not earlier than the timestamp of any entry stored by a
\* call that completed before
RecorderTimestamps ==
  [][(last'.op = "logAuditEvent" /\ last' # last /\ last'.created # <<>>) =>
       /\ last'.created[1].timestamp = now
       /\ \A r \in DOMAIN store : r.timestamp <= last'.created[1].timestamp]_vars

\* an entry passed with a timestamp of the caller is stored, on a later day than
\* an entry stored before, with the day of the clock
RecorderTimestampsWitness ==
  /\ last.op = "logAuditEvent"
  /\ last.created # <<>>
  /\ "timestamp" \in DOMAIN last.entry
  /\ last.entry.timestamp = CallerDay
  /\ last.created[1].timestamp = now
  /\ \E r \in DOMAIN store : r.timestamp < last.created[1].timestamp

\* the calls whose create succeeded with row r
Created(r) ==
  {i \in DOMAIN calls :
     /\ calls[i].pc \in {"fulfilled", "done"}
     /\ calls[i].error = "none"
     /\ r = StoredRow(CreateData(calls[i].entry, calls[i].at).data, calls[i].entry)}

\* C20: however the steps of concurrent logAuditEvent calls interleave, every
\* call whose create succeeded has exactly one entry in the table, made of the
\* entry passed to that call and the clock that call read, the table holds no
\* other entries, and the calls whose create failed or whose entry did not
\* serialize have none
ConcurrentIndependent ==
  /\ \A r \in DOMAIN store : Copies(store, r) = Cardinality(Created(r))
  /\ \A i \in DOMAIN calls :
       (calls[i].pc \in {"fulfilled", "done"} /\ calls[i].error = "none") =>
         \E r \in DOMAIN store : i \in Created(r)
  /\ Count(store) =
       Cardinality({i \in DOMAIN calls :
                      calls[i].pc \in {"fulfilled", "done"} /\ calls[i].error = "none"})

\* two calls are in flight at the same time, both before the end of their
\* await: the create of the first was rejected and the entry of the second is
\* in the table
ConcurrentIndependentWitness ==
  /\ Len(calls) >= 2
  /\ calls[1].pc = "rejected"
  /\ calls[2].pc = "fulfilled"
  /\ Count(store) = 1

ReadOps == {"queryAuditLogs", "getAuditStats", "deleteOldLogs", "exportAuditLogs"}

\* C21: when the store call of queryAuditLogs, getAuditStats, deleteOldLogs or
\* exportAuditLogs is rejected, the call throws to its caller after that one
\* store call and returns nothing, and the table is as before; a logAuditEvent
\* whose create is rejected returns
FailuresPropagate ==
  [][/\ (last'.op \in ReadOps /\ last' # last /\ "error" \in DOMAIN last') =>
          /\ last'.outcome = "threw"
          /\ last'.attempts = 1
          /\ last'.logs = <<>> /\ last'.lines = <<>>
          /\ DOMAIN last' \cap {"count", "stats"} = {}
          /\ store' = store
     /\ (last'.op = "logAuditEvent" /\ last'.error = "create") =>
          last'.outcome = "returned"]_vars

\* the deleteMany of a sweep that had rows to remove was rejected
FailuresPropagateWitness ==
  /\ last.op = "deleteOldLogs"
  /\ "error" \in DOMAIN last
  /\ last.outcome = "threw"
  /\ \E r \in DOMAIN store :
       r.tenantId = last.tenantId /\ r.timestamp < now - last.retentionDays.n

\* the text of a column that can be NULL, as the layout asks for it
OrEmpty(v) == IF v.k = "null" THEN <<>> ELSE v.s

\* the values of the fields of a CSV line
FieldValues(line) ==
  LET read == ReadCsv(line)
  IN IF read.ok /\ Len(read.records) = 1
     THEN [i \in DOMAIN read.records[1] |-> read.records[1][i].v]
     ELSE <<>>

\* C22: the text exportAuditLogs returns is a header row with the eight column
\* names and then one data row for every entry of the query, in the order of
\* the query; a data row holds the ISO timestamp, the action type, the
\* severity, the user id, the target user id, the resource type, the
\* description and the IP address of its entry, in that order, with an empty
\* string for a target user id, resource type or IP address that is missing
ExportLayout ==
  (last.op = "exportAuditLogs" /\ last.outcome = "returned") =>
    /\ FieldValues(last.header) =
         <<<<"Timestamp">>, <<"Action Type">>, <<"Severity">>, <<"User ID">>,
           <<"Target User ID">>, <<"Resource Type">>, <<"Description">>,
           <<"IP Address">>>>
    /\ Len(last.lines) = Len(last.logs)
    /\ \A i \in DOMAIN last.lines :
         /\ last.lines[i].n = last.logs[i].n
         /\ FieldValues(last.lines[i].line) =
              <<<<"1970-01-">>
                  \o (IF last.logs[i].row.timestamp + 1 < 10 THEN <<"0">> ELSE <<>>)
                  \o NatToString(last.logs[i].row.timestamp + 1)
                  \o <<"T00", ":", "00", ":", "00.000Z">>,
                last.logs[i].row.actionType.s,
                last.logs[i].row.severity.s,
                last.logs[i].row.userId.s,
                OrEmpty(last.logs[i].row.targetUserId),
                OrEmpty(last.logs[i].row.targetResourceType),
                last.logs[i].row.description.s,
                OrEmpty(last.logs[i].row.ipAddress)>>

\* an export of two entries, one with a target user and one with no target
\* user, no resource type and no IP address
ExportLayoutWitness ==
  /\ last.op = "exportAuditLogs"
  /\ last.outcome = "returned"
  /\ Len(last.lines) = 2
  /\ \E i, j \in DOMAIN last.logs :
       /\ last.logs[i].row.targetUserId.k = "string"
       /\ last.logs[j].row.targetUserId.k = "null"
       /\ last.logs[j].row.targetResourceType.k = "null"
       /\ last.logs[j].row.ipAddress.k = "null"

\* a filter field v is applied: it is supplied and, when empty strings do not
\* count, it is not the empty string
Applied(v, emptyCounts) == v.k # "undefined" /\ (emptyCounts \/ v # Str(<<>>))

\* the value x of a column is the single value v, or is one of the array v
IsOrIsIn(x, v) ==
  IF v.k = "array" THEN \E i \in DOMAIN v.items : v.items[i] = x ELSE x = v

\* entry r is of the tenant of filter f and satisfies all applied fields of f
Asked(r, f, emptyCounts) ==
  /\ r.tenantId = f.tenantId
  /\ Applied(f.userId, emptyCounts) => r.userId = f.userId
  /\ Applied(f.targetUserId, emptyCounts) => r.targetUserId = f.targetUserId
  /\ Applied(f.actionType, emptyCounts) => IsOrIsIn(r.actionType, f.actionType)
  /\ Applied(f.severity, emptyCounts) => IsOrIsIn(r.severity, f.severity)
  /\ f.dateRange.k # "undefined" =>
       f.dateRange.startDate <= r.timestamp /\ r.timestamp <= f.dateRange.endDate

\* what a query says of the entries asked for: the where clause matches
\* exactly them, every entry returned is one of them, and all of them are
\* returned when they fit into the default page
AnswersAsked(emptyCounts) ==
  (last.op = "queryAuditLogs" /\ last.outcome = "returned") =>
    /\ Matching(store, QueryWhere(last.filter)) =
         {r \in DOMAIN store : Asked(r, last.filter, emptyCounts)}
    /\ \A i \in DOMAIN last.logs : Asked(last.logs[i].row, last.filter, emptyCounts)
    /\ ( /\ last.filter.limit.k = "undefined"
         /\ last.filter.offset.k = "undefined"
         /\ Count(store) <= 100 ) =>
         Total(last.logs) =
           SumOver(store, {r \in DOMAIN store : Asked(r, last.filter, emptyCounts)})

\* C23: before pagination, queryAuditLogs matches exactly the stored entries of
\* filter.tenantId that satisfy every filter field that is supplied and is not
\* the empty string: userId and targetUserId by equality, actionType and
\* severity by equality with a single value and by membership in an array,
\* dateRange by startDate <= timestamp <= endDate
FilterSemantics == AnswersAsked(FALSE)

\* a query by date range returns an entry whose timestamp is the start date
\* and an entry whose timestamp is the end date
FilterSemanticsWitness ==
  /\ last.op = "queryAuditLogs"
  /\ last.outcome = "returned"
  /\ last.filter.dateRange.k # "undefined"
  /\ last.filter.dateRange.startDate < last.filter.dateRange.endDate
  /\ \E i, j \in DOMAIN last.logs :
       /\ last.logs[i].row.timestamp = last.filter.dateRange.startDate
       /\ last.logs[j].row.timestamp = last.filter.dateRange.endDate

\* C23 as stated: every supplied filter field is applied, the empty string
\* included
FilterSemanticsAsStated == AnswersAsked(TRUE)

\* the limit and the offset of the latest call as the caller supplied them,
\* 100 and 0 when the caller supplied none
AskedLimit == IF last.filter.limit.k = "undefined" THEN 100 ELSE last.filter.limit.n
AskedOffset == IF last.filter.offset.k = "undefined" THEN 0 ELSE last.filter.offset.n

\* the rows at positions offset .. offset + limit - 1 of the rows in order o
Page(o, offset, limit) ==
  Take(Skip([i \in DOMAIN o |-> [row |-> o[i], n |-> store[o[i]]]], offset), limit)

\* C24: queryAuditLogs returns the entries at positions offset .. offset +
\* limit - 1 of a newest-first list of the matching entries, hence at most
\* limit entries for every limit the caller supplies, 0 included, with limit
\* 100 and offset 0 when the caller supplies none
Pagination ==
  (last.op = "queryAuditLogs" /\ last.outcome = "returned") =>
    /\ Total(last.logs) <= AskedLimit
    /\ \E o \in DescOrders(Matching(store, QueryWhere(last.filter))) :
         last.logs = ParsedLogs(Page(o, AskedOffset, AskedLimit))

\* the create of call c was rejected
CreateFailed(c) == c.pc = "rejected" \/ (c.pc = "done" /\ c.error = "create")

\* C25: a logAuditEvent call sends at most one create; the step in which its
\* create is rejected leaves the table as it is; the call never sends a create
\* again, and the table only grows by the creates that succeed, one row each,
\* so no entry of the failed call appears later
NoRetryNoPartialWrite ==
  [][/\ \A i \in DOMAIN calls' : calls'[i].creates <= 1
     /\ \A i \in DOMAIN calls :
          /\ (calls[i].pc = "await" /\ calls'[i].pc = "rejected") => store' = store
          /\ CreateFailed(calls[i]) =>
               CreateFailed(calls'[i]) /\ calls'[i].creates = calls[i].creates
     /\ Count(store') =
          Count(store) + Cardinality({i \in DOMAIN calls :
                                        calls[i].pc = "await" /\ calls'[i].pc = "fulfilled"})
    ]_vars

\* a call whose create was rejected on an earlier day has returned, and the
\* table is empty
NoRetryNoPartialWriteWitness ==
  /\ \E i \in DOMAIN calls :
       /\ calls[i].pc = "done"
       /\ calls[i].error = "create"
       /\ calls[i].creates = 1
       /\ calls[i].at < now
  /\ store = EmptyTable

\* C26: a logPermissionChange call with both lists non-empty whose create
\* succeeds adds exactly one entry; the changes of the entry read back as the
\* added list and the removed list as they were passed, and its description
\* states the number of permissions in both lists together
MixedPermissionChange ==
  [][(/\ last'.op = "logPermissionChange"
      /\ last' # last
      /\ last'.permissionsAdded # <<>>
      /\ last'.permissionsRemoved # <<>>
      /\ last'.error = "none")
     => /\ Count(store') = Count(store) + 1
        /\ Len(last'.created) = 1
        /\ Copies(store', last'.created[1]) = Copies(store, last'.created[1]) + 1
        /\ last'.created[1].changes.k = "string"
        /\ JSONparse(last'.created[1].changes.s) =
             [ok |-> TRUE,
              v |-> Obj(<< <<<<"added">>, Arr(last'.permissionsAdded)>>,
                           <<<<"removed">>, Arr(last'.permissionsRemoved)>> >>)]
        /\ last'.created[1].description.s =
             <<"Granted", " ">>
               \o NatToString(Len(last'.permissionsAdded) + Len(last'.permissionsRemoved))
               \o <<" permission(s) for ">> \o last'.targetUserId.s]_vars

\* a call that added two permissions and removed another one recorded an entry
MixedPermissionChangeWitness ==
  /\ last.op = "logPermissionChange"
  /\ Len(last.permissionsAdded) = 2
  /\ Len(last.permissionsRemoved) = 1
  /\ last.created # <<>>
  /\ last.created[1] \in DOMAIN store

\* C27: every data row of exportAuditLogs(tenantId, filter) is the row of an
\* entry of the tenant tenantId, also when the filter names another tenant
ExportScoped ==
  (last.op = "exportAuditLogs" /\ last.outcome = "returned") =>
    /\ Len(last.lines) = Len(last.logs)
    /\ \A i \in DOMAIN last.logs :
         /\ last.logs[i].row.tenantId = last.tenantId
         /\ \E r \in DOMAIN store :
              /\ r.tenantId = last.tenantId
              /\ r.timestamp = last.logs[i].row.timestamp
              /\ r.userId = last.logs[i].row.userId
              /\ r.description = last.logs[i].row.description
              /\ last.lines[i].line = CsvLine(CsvCells(r))

\* an export for one tenant with a filter that names the other tenant returned
\* rows, and the table holds an entry of the other tenant
ExportScopedWitness ==
  /\ last.op = "exportAuditLogs"
  /\ last.outcome = "returned"
  /\ last.filter.k # "undefined"
  /\ last.filter.tenantId # last.tenantId
  /\ last.logs # <<>>
  /\ \E r \in DOMAIN store : r.tenantId = last.filter.tenantId

\* the filter of the latest export as the caller wrote it, with the tenant of
\* the export
ExportAsked ==
  [(IF last.filter.k = "undefined" THEN NoFilter ELSE last.filter)
     EXCEPT !.tenantId = last.tenantId]

\* the number of entries the latest export asks for
ExportAskedCount == SumOver(store, {r \in DOMAIN store : Asked(r, ExportAsked, FALSE)})

\* C28: exportAuditLogs keeps the offset of the caller's filter: of the M
\* matching entries, newest first, it leaves out the first offset ones and
\* holds the min(10000, max(0, M - offset)) that follow, whatever limit the
\* caller gave; with no offset or offset 0 it starts at the newest
ExportKeepsOffset ==
  (last.op = "exportAuditLogs" /\ last.outcome = "returned") =>
    /\ Total(last.lines) =
         IF ExportAskedCount <= ExportOffset THEN 0
         ELSE IF ExportAskedCount - ExportOffset > 10000 THEN 10000
         ELSE ExportAskedCount - ExportOffset
    /\ \E o \in DescOrders({r \in DOMAIN store : Asked(r, ExportAsked, FALSE)}) :
         /\ last.logs = ParsedLogs(Page(o, ExportOffset, 10000))
         /\ last.lines = [i \in DOMAIN last.logs |->
                            [line |-> CsvLine(CsvCells(last.logs[i].row)),
                             n |-> last.logs[i].n]]

\* an export with offset 1 of 10,002 matching entries holds 10,000 rows and
\* not the newest entry
ExportKeepsOffsetWitness ==
  /\ last.op = "exportAuditLogs"
  /\ last.outcome = "returned"
  /\ ExportOffset = 1
  /\ ExportAskedCount = 10002
  /\ Total(last.lines) = 10000
  /\ \E r \in DOMAIN store :
       /\ Asked(r, ExportAsked, FALSE)
       /\ \A i \in DOMAIN last.logs : last.logs[i].row.timestamp < r.timestamp

\* the sweeps among the calls that have completed
SweepsDone == {i \in DOMAIN calls : calls[i].pc = "swept"}

\* the entries of the tenant of sweep i in the table that are older than its
\* cutoff
OlderThanCutoff(i) ==
  {r \in DOMAIN store :
     r.tenantId = calls[i].tenantId /\ r.timestamp < calls[i].cutoffDate}

\* the calls that had read the clock and not had their create answered when
\* sweep i ran its deleteMany, and whose create then stored row r
LateCreates(i, r) ==
  {j \in calls[i].pending :
     /\ calls[j].pc \in {"fulfilled", "done"}
     /\ calls[j].error = "none"
     /\ r = StoredRow(calls[j].data[1], calls[j].entry)}

\* C29: once a deleteOldLogs(T, d) call has completed, the only entries of T in
\* the table that are older than its cutoff are entries of logAuditEvent calls
\* that had read the clock before the sweep ran its deleteMany and whose create
\* the store answered after it
RetentionAfterSweep ==
  \A i \in SweepsDone :
    \A r \in OlderThanCutoff(i) : Copies(store, r) <= Cardinality(LateCreates(i, r))

\* a sweep has completed and the table holds an entry of its tenant older than
\* its cutoff, stored by a call that was in flight during the sweep
RetentionAfterSweepWitness ==
  \E i \in SweepsDone :
    \E r \in OlderThanCutoff(i) : LateCreates(i, r) # {}

\* C29 as stated: once a deleteOldLogs(T, d) call has completed, the table
\* holds no entry of T older than its cutoff, however the steps interleave
RetentionAfterSweepAsStated ==
  \A i \in SweepsDone : OlderThanCutoff(i) = {}

(***************************************************************************)
(* The payment-method handlers.  paymentMethods is the userPaymentMethod    *)
(* table of one user and tenant: the row with id i is paymentMethods[i],    *)
(* rows are created in the order of their ids, and a deleted row leaves     *)
(* Deleted behind.  requests holds the requests in flight; a handler runs   *)
(* from one await on the table to the next in a step, and no transaction    *)
(* joins its steps.                                                         *)
(***************************************************************************)
\* the rows created in the table at most
MaxMethods == 2

\* the requests that can be in flight at the same time
MaxRequests == 2

StripeIds == {"pm_1", "pm_2"}

Deleted == [paymentMethodId |-> "", isDefault |-> FALSE, status |-> Null]

Stored(t) == {id \in DOMAIN t : t[id] # Deleted}

Defaults(t) == {id \in Stored(t) : t[id].isDefault}

\* updateMany({ where: { isDefault: true, id: { not: id } }, data: { isDefault: false } });
\* POST has no id to leave out, and passes 0
UnsetDefaults(t, id) ==
  [i \in DOMAIN t |-> IF i \in Defaults(t) /\ i # id
                      THEN [t[i] EXCEPT !.isDefault = FALSE] ELSE t[i]]

\* findFirst({ where: { status: 'ACTIVE' }, orderBy: { createdAt: 'desc' } }):
\* the id of the newest ACTIVE row, 0 when there is none
NewestActive(t) ==
  LET active == {id \in Stored(t) : t[id].status = S("ACTIVE")}
  IN IF active = {} THEN 0 ELSE CHOOSE id \in active : \A other \in active : other <= id

\* a request in flight: the handler, its position, its parameters and what it
\* has read so far
Request(op, id, paymentMethodId, setAsDefault, status) ==
  [op |-> op, pc |-> "findFirst", id |-> id, paymentMethodId |-> paymentMethodId,
   setAsDefault |-> setAsDefault, status |-> status, wasDefault |-> FALSE,
   nextDefault |-> 0]

Without(seq, i) == SubSeq(seq, 1, i - 1) \o SubSeq(seq, i + 1, Len(seq))

\* request i goes on to its next await
Goto(i, pc) == requests' = [requests EXCEPT ![i].pc = pc]

\* request i is answered, with a response or with the 500 of the catch block
Respond(i) == requests' = Without(requests, i)

At(i, op, pc) == requests[i].op = op /\ requests[i].pc = pc

Audit == <<store, now, last, calls>>

\* POST: the body is parsed, the Stripe method retrieved, findFirst is sent
postStart ==
  /\ Len(requests) < MaxRequests
  /\ Len(paymentMethods) + Cardinality({i \in DOMAIN requests : requests[i].op = "POST"})
       < MaxMethods
  /\ \E paymentMethodId \in StripeIds, setAsDefault \in BOOLEAN :
       requests' = Append(requests, Request("POST", 0, paymentMethodId,
                                            Bool(setAsDefault), Undefined))
  /\ UNCHANGED <<paymentMethods, Audit>>

\* POST: the duplicate check answers: 409, or on to updateMany or create
postFindFirst ==
  \E i \in DOMAIN requests :
    /\ At(i, "POST", "findFirst")
    /\ IF \E id \in Stored(paymentMethods) :
            paymentMethods[id].paymentMethodId = requests[i].paymentMethodId
       THEN Respond(i)
       ELSE Goto(i, IF requests[i].setAsDefault.b THEN "updateMany" ELSE "create")
    /\ UNCHANGED <<paymentMethods, Audit>>

\* POST: the previous default is unset
postUpdateMany ==
  \E i \in DOMAIN requests :
    /\ At(i, "POST", "updateMany")
    /\ paymentMethods' = UnsetDefaults(paymentMethods, 0)
    /\ Goto(i, "create")
    /\ UNCHANGED Audit

\* POST: the row is created, ACTIVE by the default of its column, and the
\* request answered
postCreate ==
  \E i \in DOMAIN requests :
    /\ At(i, "POST", "create")
    /\ paymentMethods' = Append(paymentMethods,
                                [paymentMethodId |-> requests[i].paymentMethodId,
                                 isDefault |-> requests[i].setAsDefault.b,
                                 status |-> S("ACTIVE")])
    /\ Respond(i)
    /\ UNCHANGED Audit

\* PATCH: the body is parsed and findFirst is sent
patchStart ==
  /\ Len(requests) < MaxRequests
  /\ \E id \in 1..MaxMethods,
        setAsDefault \in {Undefined, Bool(TRUE), Bool(FALSE)},
        status \in {Undefined, S("ACTIVE"), S("INACTIVE")} :
       requests' = Append(requests, Request("PATCH", id, "", setAsDefault, status))
  /\ UNCHANGED <<paymentMethods, Audit>>

\* PATCH: the row is looked up: 404, or on to updateMany or update
patchFindFirst ==
  \E i \in DOMAIN requests :
    /\ At(i, "PATCH", "findFirst")
    /\ IF requests[i].id \notin Stored(paymentMethods)
       THEN Respond(i)
       ELSE Goto(i, IF Truthy(requests[i].setAsDefault) THEN "updateMany" ELSE "update")
    /\ UNCHANGED <<paymentMethods, Audit>>

\* PATCH: the other defaults are unset
patchUpdateMany ==
  \E i \in DOMAIN requests :
    /\ At(i, "PATCH", "updateMany")
    /\ paymentMethods' = UnsetDefaults(paymentMethods, requests[i].id)
    /\ Goto(i, "update")
    /\ UNCHANGED Audit

\* the row after update({ data: updateData }) of a PATCH request
Updated(row, request) ==
  [row EXCEPT !.isDefault = IF request.setAsDefault = Undefined THEN @
                            ELSE request.setAsDefault.b,
              !.status = IF request.status = Undefined THEN @ ELSE request.status]

\* PATCH: the row is updated and the request answered; update throws when the
\* row is no longer there
patchUpdate ==
  \E i \in DOMAIN requests :
    /\ At(i, "PATCH", "update")
    /\ paymentMethods' =
         IF requests[i].id \in Stored(paymentMethods)
         THEN [paymentMethods EXCEPT ![requests[i].id] = Updated(@, requests[i])]
         ELSE paymentMethods
    /\ Respond(i)
    /\ UNCHANGED Audit

\* DELETE: findFirst is sent
deleteStart ==
  /\ Len(requests) < MaxRequests
  /\ \E id \in 1..MaxMethods :
       requests' = Append(requests, Request("DELETE", id, "", Undefined, Undefined))
  /\ UNCHANGED <<paymentMethods, Audit>>

\* DELETE: the row is looked up: 404, or it is kept as read and, after the
\* detach at Stripe, delete is sent
deleteFindFirst ==
  \E i \in DOMAIN requests :
    /\ At(i, "DELETE", "findFirst")
    /\ IF requests[i].id \notin Stored(paymentMethods)
       THEN Respond(i)
       ELSE requests' = [requests EXCEPT
                           ![i].pc = "delete",
                           ![i].wasDefault = paymentMethods[requests[i].id].isDefault]
    /\ UNCHANGED <<paymentMethods, Audit>>

\* DELETE: the row is deleted; delete throws when it is no longer there; the
\* request is answered unless the row was the default when it was read
deleteDelete ==
  \E i \in DOMAIN requests :
    /\ At(i, "DELETE", "delete")
    /\ IF requests[i].id \in Stored(paymentMethods)
       THEN /\ paymentMethods' = [paymentMethods EXCEPT ![requests[i].id] = Deleted]
            /\ IF requests[i].wasDefault THEN Goto(i, "findNext") ELSE Respond(i)
       ELSE /\ UNCHANGED paymentMethods
            /\ Respond(i)
    /\ UNCHANGED Audit

\* DELETE: the newest ACTIVE row is looked up; the request is answered when
\* there is none
deleteFindNext ==
  \E i \in DOMAIN requests :
    /\ At(i, "DELETE", "findNext")
    /\ IF NewestActive(paymentMethods) = 0
       THEN Respond(i)
       ELSE requests' = [requests EXCEPT ![i].pc = "promote",
                                         ![i].nextDefault = NewestActive(paymentMethods)]
    /\ UNCHANGED <<paymentMethods, Audit>>

\* DELETE: the row found is made the default and the request answered; update
\* throws when the row is no longer there
deletePromote ==
  \E i \in DOMAIN requests :
    /\ At(i, "DELETE", "promote")
    /\ paymentMethods' =
         IF requests[i].nextDefault \in Stored(paymentMethods)
         THEN [paymentMethods EXCEPT ![requests[i].nextDefault].isDefault = TRUE]
         ELSE paymentMethods
    /\ Respond(i)
    /\ UNCHANGED Audit

NextPayments ==
  \/ postStart
  \/ postFindFirst
  \/ postUpdateMany
  \/ postCreate
  \/ patchStart
  \/ patchFindFirst
  \/ patchUpdateMany
  \/ patchUpdate
  \/ deleteStart
  \/ deleteFindFirst
  \/ deleteDelete
  \/ deleteFindNext
  \/ deletePromote

\* the payment-method requests of one user and tenant, in flight together
SpecPayments == Init /\ [][NextPayments]_vars

\* C30: whatever the interleaving of the POST, PATCH and DELETE handlers of one
\* user and tenant, at most one stored payment method has isDefault = true
SingleDefault == Cardinality(Defaults(paymentMethods)) <= 1
====
